---------------------------- MODULE Spec2Model ----------------------------
(***************************************************************************)
(* A model of the interactive SQL learning pages (Streamlit scripts under  *)
(* src/pages).  Every page is a script that Streamlit runs from its first  *)
(* line to its last on the first load of the page and again on every       *)
(* widget interaction.  A variable assigned at script level (employees,    *)
(* products) is therefore rebuilt from its literal on every run; only      *)
(* st.session_state and the values held by the widgets survive from one    *)
(* run to the next.  st.button returns True only in the run that its own   *)
(* click has triggered, so at most one button is "pressed" in a run.       *)
(*                                                                         *)
(* One action of the model is one whole run of a page script.  The         *)
(* variables hold what survives the run (session state, widget values)     *)
(* and what the run has produced (the final value of the script-level      *)
(* tables, the message and the quiz feedback it rendered).                 *)
(***************************************************************************)
EXTENDS Integers, Sequences, FiniteSets, Bags, TLC

VARIABLES
    page,                  \* the page script this session is running
    trigger,               \* what caused the last run: "load", "widget" or a button
    fields,                \* values held by the input widgets of the tab in view
    inputs,                \* widget values read by the handler of the pressed button
    message,               \* st.error / st.success / st.warning rendered by that handler
    employees,             \* script-level table `employees` at the end of the last run
    products,              \* script-level table `products` at the end of the last run
    transaction_products,  \* st.session_state.transaction_products
    savepoint_products,    \* st.session_state.savepoint_products
    before,                \* the tables as the last run found them when it started
    quiz,                  \* the quiz widget looked at (a page may hold two)
    quiz_question,         \* value of the quiz's st.multiselect / st.radio widget
    feedback,              \* what Submit Answer rendered in the last run, if anything
    sql_command,           \* st.code(sql_command) rendered by the last run in the tab in view
    displayed,             \* st.dataframe(...) rendered with it
    pc,                    \* position of a run in the page script (the tab it has reached)
    data,                  \* script-level table `data`
    departments,           \* script-level table `departments`
    sales,                 \* script-level table `sales`
    session_state,         \* st.session_state of every browser session of the server
    actor,                 \* the session whose script ran last
    employees_a,           \* script-level table `employees_a`
    employees_b,           \* script-level table `employees_b`
    audit_log              \* script-level table `audit_log`

vars == <<page, trigger, fields, inputs, message, employees, products,
          transaction_products, savepoint_products, before,
          quiz, quiz_question, feedback,
          sql_command, displayed, pc, data, departments, sales,
          session_state, actor, employees_a, employees_b, audit_log>>

panelVars   == <<sql_command, displayed>>
scriptVars  == <<pc, data, departments, sales>>
sessionVars == <<session_state, actor>>
pageTables  == <<employees_a, employees_b, audit_log>>

tableVars == <<employees, products, transaction_products, savepoint_products, before>>
quizVars  == <<quiz, quiz_question, feedback>>

NoInputs   == [kind |-> "none"]
NoFields   == [kind |-> "none"]
NoMessage  == "none"
NoTable    == <<>>
NoFeedback == [kind |-> "none", missing |-> {}, extra |-> {}]
NoCommand  == [op |-> "none"]
NoSessions == <<>>
NoActor    == "none"
Done       == "done"

-----------------------------------------------------------------------------
(***************************************************************************)
(* QUIZZES.  A quiz is a fixed set of options, the page's correct set and  *)
(* the way its Submit Answer handler words a mismatch.  The value of       *)
(* st.radio is one option; it is held here as the one-element set of that  *)
(* option so that every quiz_question is a set.                            *)
(***************************************************************************)

quiz_basic_sql ==
    [page    |-> "1_Basic_SQL_Queries.py",
     widget  |-> "radio",
     options |-> <<"SELECT", "WHERE", "DISTINCT", "LIMIT">>,
     correct |-> {"WHERE"},
     style   |-> "flat"]

quiz_joins ==
    [page    |-> "2_Joins.py",
     widget  |-> "radio",
     options |-> <<"INNER JOIN", "LEFT JOIN", "RIGHT JOIN", "FULL JOIN">>,
     correct |-> {"FULL JOIN"},
     style   |-> "flat"]

quiz_aggregating ==
    [page    |-> "3_Aggregating_Data.py",
     widget  |-> "radio",
     options |-> <<"GROUP BY", "WHERE", "HAVING">>,
     correct |-> {"HAVING"},
     style   |-> "flat"]

subqueries_quiz ==
    [page    |-> "4_Subqueries.py",
     widget  |-> "radio",
     options |-> <<"Subqueries can only be used in the WHERE clause.",
                   "A subquery can return multiple columns and rows.",
                   "The EXISTS operator in a subquery returns actual data from the table.",
                   "Subqueries cannot be nested inside another subquery.">>,
     correct |-> {"A subquery can return multiple columns and rows."},
     style   |-> "flat"]

set_operations_quiz ==
    [page    |-> "5_Set_Operations.py",
     widget  |-> "radio",
     options |-> <<"UNION", "UNION ALL", "INTERSECT", "EXCEPT">>,
     correct |-> {"UNION ALL"},
     style   |-> "flat"]

data_modification_quiz ==
    [page    |-> "6_Data_Modification.py",
     widget  |-> "radio",
     options |-> <<"INSERT INTO", "UPDATE", "DELETE", "MERGE (UPSERT)">>,
     correct |-> {"MERGE (UPSERT)"},
     style   |-> "flat"]

constraints_quiz ==
    [page    |-> "7_Constraints.py",
     widget  |-> "multiselect",
     options |-> <<"PRIMARY KEY", "NOT NULL", "UNIQUE", "DEFAULT">>,
     correct |-> {"PRIMARY KEY", "NOT NULL"},
     style   |-> "constraints"]

indexes_quiz ==
    [page    |-> "8_Indexes.py",
     widget  |-> "multiselect",
     options |-> <<"Indexes improve SELECT query performance.",
                   "Indexes always improve INSERT performance.",
                   "Full-text indexes are used for text search.",
                   "Unique indexes allow duplicate values.">>,
     correct |-> {"Indexes improve SELECT query performance.",
                  "Full-text indexes are used for text search."},
     style   |-> "itemized"]

quiz_normalization ==
    [page    |-> "9_Normalization_and_Denormalization.py",
     widget  |-> "multiselect",
     options |-> <<"Minimizes data redundancy",
                   "Improves query performance in read-heavy systems",
                   "Ensures data consistency",
                   "Simplifies queries">>,
     correct |-> {"Minimizes data redundancy", "Ensures data consistency"},
     style   |-> "itemized"]

normalization_quiz ==
    [page    |-> "9_Normalization_and_Denormalization.py",
     widget  |-> "multiselect",
     options |-> <<"1NF", "2NF", "3NF", "BCNF">>,
     correct |-> {"2NF"},
     style   |-> "flat"]

views_quiz ==
    [page    |-> "10_Views.py",
     widget  |-> "multiselect",
     options |-> <<"A view is a virtual table.",
                   "Materialized views store data physically.",
                   "Views always improve query performance.",
                   "Views can enhance security.">>,
     correct |-> {"A view is a virtual table.",
                  "Materialized views store data physically.",
                  "Views can enhance security."},
     style   |-> "itemized"]

quiz_transactions ==
    [page    |-> "11_Transactions.py",
     widget  |-> "multiselect",
     options |-> <<"COMMIT makes changes permanent.",
                   "ROLLBACK undoes all changes since the last COMMIT.",
                   "SAVEPOINT allows rolling back to intermediate states.",
                   "Read Uncommitted is the highest isolation level.">>,
     correct |-> {"COMMIT makes changes permanent.",
                  "ROLLBACK undoes all changes since the last COMMIT.",
                  "SAVEPOINT allows rolling back to intermediate states."},
     style   |-> "itemized"]

quiz_procedures ==
    [page    |-> "12_Stored Procedures_and_Functions.py",
     widget  |-> "multiselect",
     options |-> <<"A procedure can return multiple values.",
                   "A function can return multiple values.",
                   "Functions can be used in SELECT statements.",
                   "Procedures can handle complex operations.">>,
     correct |-> {"A procedure can return multiple values.",
                  "Functions can be used in SELECT statements.",
                  "Procedures can handle complex operations."},
     style   |-> "itemized"]

quiz_triggers ==
    [page    |-> "13_Triggers.py",
     widget  |-> "multiselect",
     options |-> <<"A BEFORE trigger executes before an operation.",
                   "An AFTER trigger executes instead of an operation.",
                   "INSTEAD OF triggers work with views.",
                   "Triggers can be created for INSERT, UPDATE, and DELETE operations.">>,
     correct |-> {"A BEFORE trigger executes before an operation.",
                  "INSTEAD OF triggers work with views.",
                  "Triggers can be created for INSERT, UPDATE, and DELETE operations."},
     style   |-> "itemized"]

quiz_advanced_sql ==
    [page    |-> "14__Advanced_SQL.py",
     widget  |-> "multiselect",
     options |-> <<"CTEs simplify complex queries.",
                   "Window functions calculate values across rows.",
                   "Recursive queries cannot generate sequences.",
                   "Pivoting transforms rows into columns.">>,
     correct |-> {"CTEs simplify complex queries.",
                  "Window functions calculate values across rows.",
                  "Pivoting transforms rows into columns."},
     style   |-> "itemized"]

\* The quiz widgets of the repository, by the page that holds them.
QuizOf ==
    [q \in {"Basic SQL Queries", "Joins", "Aggregating Data", "Subqueries",
            "Set Operations", "Data Modification", "Constraints", "Indexes",
            "Normalization (advantages)", "Normalization (2NF)", "Views",
            "Transactions", "Stored Procedures", "Triggers", "Advanced SQL"} |->
        CASE q = "Basic SQL Queries"          -> quiz_basic_sql
          [] q = "Joins"                      -> quiz_joins
          [] q = "Aggregating Data"           -> quiz_aggregating
          [] q = "Subqueries"                 -> subqueries_quiz
          [] q = "Set Operations"             -> set_operations_quiz
          [] q = "Data Modification"          -> data_modification_quiz
          [] q = "Constraints"                -> constraints_quiz
          [] q = "Indexes"                    -> indexes_quiz
          [] q = "Normalization (advantages)" -> quiz_normalization
          [] q = "Normalization (2NF)"        -> normalization_quiz
          [] q = "Views"                      -> views_quiz
          [] q = "Transactions"               -> quiz_transactions
          [] q = "Stored Procedures"          -> quiz_procedures
          [] q = "Triggers"                   -> quiz_triggers
          [] q = "Advanced SQL"               -> quiz_advanced_sql]

Quizzes == DOMAIN QuizOf

Range(s) == {s[i] : i \in DOMAIN s}

Options(q) == Range(QuizOf[q].options)
Correct(q) == QuizOf[q].correct

MultiSelectQuizzes  == {q \in Quizzes : QuizOf[q].widget = "multiselect"}
SingleSelectQuizzes == {q \in Quizzes : QuizOf[q].widget = "radio"}

\* What the widget holds before the user touches it: st.multiselect without
\* `default` holds nothing, st.radio holds its first option.
WidgetDefault(q) ==
    IF QuizOf[q].widget = "radio" THEN {QuizOf[q].options[1]} ELSE {}

\* The values the user can give the widget.
WidgetValues(q) ==
    IF QuizOf[q].widget = "radio"
    THEN {{o} : o \in Options(q)}
    ELSE SUBSET Options(q)

\* Views, Transactions, Triggers, Stored Procedures, Advanced SQL, Indexes and
\* the first Normalization quiz: set equality, else the two set differences,
\* each rendered as a line of the feedback only when it is not empty.
ItemizedNoMissing(selected_answers, correct_answers) ==
    IF selected_answers = correct_answers
    THEN [kind |-> "success", missing |-> {}, extra |-> {}]
    ELSE [kind |-> "error", missing |-> {},
          extra |-> selected_answers \ correct_answers]

ItemizedPartialCredit(selected_answers, correct_answers) ==
    IF selected_answers \subseteq correct_answers /\ selected_answers # {}
    THEN [kind |-> "success", missing |-> {}, extra |-> {}]
    ELSE [kind |-> "error",
          missing |-> correct_answers \ selected_answers,
          extra   |-> selected_answers \ correct_answers]

ItemizedSubmit(selected_answers, correct_answers) ==
    IF selected_answers = correct_answers
    THEN [kind |-> "success", missing |-> {}, extra |-> {}]
    ELSE [kind |-> "error",
          missing |-> correct_answers \ selected_answers,
          extra   |-> selected_answers \ correct_answers]

\* Constraints: missing_answers is the whole correct set.
ConstraintsSubmit(selected_answers, correct_answers) ==
    IF selected_answers = correct_answers
    THEN [kind |-> "success", missing |-> {}, extra |-> {}]
    ELSE [kind |-> "error",
          missing |-> correct_answers,
          extra   |-> selected_answers \ correct_answers]

\* The second Normalization quiz and the st.radio quizzes: one fixed sentence
\* on a mismatch, nothing itemized.
FlatSubmit(selected_answers, correct_answers) ==
    IF selected_answers = correct_answers
    THEN [kind |-> "success", missing |-> {}, extra |-> {}]
    ELSE [kind |-> "error", missing |-> {}, extra |-> {}]

Evaluate(q, selected) ==
    CASE QuizOf[q].style = "itemized"    -> ItemizedSubmit(selected, Correct(q))
      [] QuizOf[q].style = "constraints" -> ConstraintsSubmit(selected, Correct(q))
      [] QuizOf[q].style = "flat"        -> FlatSubmit(selected, Correct(q))

\* A run of the page that the quiz's own Submit Answer button did not trigger
\* and in which the user has changed the quiz's selection: the `if st.button`
\* block is skipped, so no feedback is rendered.
SelectAnswer ==
    /\ quiz \in Quizzes
    /\ \E selected \in WidgetValues(quiz) \ {quiz_question} :
           quiz_question' = selected
    /\ feedback' = NoFeedback
    /\ trigger' = "widget"
    /\ UNCHANGED <<panelVars, scriptVars, sessionVars, pageTables, page, quiz, fields, inputs, message, tableVars>>

\* A run triggered by any other widget or button of the page: the selection
\* stays, the `if st.button("Submit Answer")` block is skipped.
OtherInteraction ==
    /\ quiz \in Quizzes
    /\ feedback' = NoFeedback
    /\ trigger' = "widget"
    /\ UNCHANGED <<panelVars, scriptVars, sessionVars, pageTables, page, quiz, quiz_question, fields, inputs, message, tableVars>>

SubmitAnswerStaleSelection ==
    /\ quiz \in Quizzes
    /\ feedback' = Evaluate(quiz, WidgetDefault(quiz))
    /\ trigger' = "Submit Answer"
    /\ UNCHANGED <<panelVars, scriptVars, sessionVars, pageTables, page, quiz, quiz_question, fields, inputs, message, tableVars>>

\* The run triggered by the quiz's Submit Answer button.
SubmitAnswer ==
    /\ quiz \in Quizzes
    /\ feedback' = Evaluate(quiz, quiz_question)
    /\ trigger' = "Submit Answer"
    /\ UNCHANGED <<panelVars, scriptVars, sessionVars, pageTables, page, quiz, quiz_question, fields, inputs, message, tableVars>>

\* The first run of a page in a session, seen through one of its quizzes.
InitQuiz ==
    /\ quiz \in Quizzes
    /\ page = QuizOf[quiz].page
    /\ quiz_question = WidgetDefault(quiz)
    /\ feedback = NoFeedback
    /\ trigger = "load"
    /\ fields = NoFields
    /\ inputs = NoInputs
    /\ message = NoMessage
    /\ employees = NoTable
    /\ products = NoTable
    /\ transaction_products = NoTable
    /\ savepoint_products = NoTable
    /\ before = NoTable
    /\ sql_command = NoCommand
    /\ displayed = NoTable
    /\ pc = Done
    /\ data = NoTable
    /\ departments = NoTable
    /\ sales = NoTable
    /\ session_state = NoSessions
    /\ actor = NoActor
    /\ employees_a = NoTable
    /\ employees_b = NoTable
    /\ audit_log = NoTable

NextQuiz == SelectAnswer \/ SubmitAnswer \/ OtherInteraction

SpecQuiz == InitQuiz /\ [][NextQuiz]_vars

QuizState ==
    IF feedback.kind = "none" THEN "awaiting submission" ELSE "result shown"

Submitted == trigger = "Submit Answer"

-----------------------------------------------------------------------------
(***************************************************************************)
(* TRANSACTIONS PAGE (11_Transactions.py).  A table is the sequence of its *)
(* rows in index order; the row with index label 0 is element 1.           *)
(***************************************************************************)

\* Largest amount typed into a "Stock to Deduct" field (min_value=1, no maximum).
MaxDeduct == 11

Amounts == 1..MaxDeduct

\* products = pd.DataFrame({...})
ProductsLiteral ==
    << [product_id |-> 1, product_name |-> "Laptop", stock |-> 10, price |-> 1000],
       [product_id |-> 2, product_name |-> "Phone",  stock |-> 15, price |-> 500],
       [product_id |-> 3, product_name |-> "Tablet", stock |-> 8,  price |-> 300] >>

ProductsKeptFromLastRun == products

\* The script-level `products` when a run reaches the tabs: the assignment
\* of the literal has just been executed again.
ProductsAtRunStart == ProductsLiteral

InitAlways(session_table, current_products) == current_products

\* if "<key>" not in st.session_state: st.session_state.<key> = products.copy()
\* (a key that is absent is held as NoTable).
InitIfAbsent(session_table, current_products) ==
    IF session_table = NoTable THEN current_products ELSE session_table

\* df.loc[0, 'stock'] -= amount
DeductLaptop(df, amount) == [df EXCEPT ![1].stock = @ - amount]

\* df.loc[df['product_name'] == name, 'stock'] -= amount
DeductByName(df, name, amount) ==
    [i \in DOMAIN df |->
        IF df[i].product_name = name
        THEN [df[i] EXCEPT !.stock = @ - amount]
        ELSE df[i]]

\* df[df['product_name'] == name]['stock'].iloc[0]
StockByName(df, name) ==
    LET hits == {i \in DOMAIN df : df[i].product_name = name}
        first == CHOOSE i \in hits : \A j \in hits : i <= j
    IN  df[first].stock

\* df.update(other): every cell of df that other holds (same index label,
\* same column, not NA) takes other's value.
Update(df, other) ==
    [i \in DOMAIN df |-> IF i \in DOMAIN other THEN other[i] ELSE df[i]]

SessionTables == [transaction_products |-> transaction_products,
                  savepoint_products   |-> savepoint_products]

\* First run of the page in a new session (the page is opened or reloaded):
\* st.session_state is empty and no button is pressed.
PageLoad ==
    /\ page = "11_Transactions.py"
    /\ trigger' = "load"
    /\ inputs' = NoInputs
    /\ message' = NoMessage
    /\ products' = ProductsAtRunStart
    /\ transaction_products' = InitIfAbsent(NoTable, ProductsAtRunStart)
    /\ savepoint_products' = InitIfAbsent(NoTable, ProductsAtRunStart)
    /\ before' = [transaction_products |-> NoTable, savepoint_products |-> NoTable]
    /\ feedback' = NoFeedback
    /\ UNCHANGED <<panelVars, scriptVars, sessionVars, pageTables, page, fields, employees, quiz,
                   quiz_question>>

\* A run in which no button of the tabs is pressed (a number input, a select
\* box or the quiz was used, or the user came back to the page).
Rerun ==
    /\ page = "11_Transactions.py"
    /\ trigger' = "widget"
    /\ inputs' = NoInputs
    /\ message' = NoMessage
    /\ products' = ProductsAtRunStart
    /\ transaction_products' = InitIfAbsent(transaction_products, ProductsAtRunStart)
    /\ savepoint_products' = InitIfAbsent(savepoint_products, ProductsAtRunStart)
    /\ before' = SessionTables
    /\ feedback' = NoFeedback
    /\ UNCHANGED <<panelVars, scriptVars, sessionVars, pageTables, page, fields, employees, quiz,
                   quiz_question>>

\* ACID Properties tab: st.button("Perform Transaction").
PerformTransaction ==
    /\ page = "11_Transactions.py"
    /\ \E product_to_update \in {r.product_name : r \in Range(ProductsAtRunStart)},
          stock_update \in Amounts :
         LET failed == stock_update > StockByName(ProductsAtRunStart, product_to_update)
             updated == IF failed THEN ProductsAtRunStart
                        ELSE DeductByName(ProductsAtRunStart, product_to_update, stock_update)
         IN  /\ inputs' = [kind |-> "Perform Transaction",
                           product |-> product_to_update, amount |-> stock_update]
             /\ message' = IF failed THEN "Transaction Failed: Insufficient stock!"
                           ELSE "Transaction Successful!"
             /\ products' = updated
             /\ transaction_products' = InitIfAbsent(transaction_products, updated)
             /\ savepoint_products' = InitIfAbsent(savepoint_products, updated)
    /\ trigger' = "Perform Transaction"
    /\ before' = SessionTables
    /\ feedback' = NoFeedback
    /\ UNCHANGED <<panelVars, scriptVars, sessionVars, pageTables, page, fields, employees, quiz,
                   quiz_question>>

StartTransactionUnchecked ==
    /\ page = "11_Transactions.py"
    /\ \E transaction_stock_update \in Amounts :
         LET found == InitIfAbsent(transaction_products, ProductsAtRunStart)
         IN  /\ inputs' = [kind |-> "Start Transaction", amount |-> transaction_stock_update]
             /\ message' = "Transaction in Progress..."
             /\ transaction_products' = DeductLaptop(found, transaction_stock_update)
    /\ trigger' = "Start Transaction"
    /\ products' = ProductsAtRunStart
    /\ savepoint_products' = InitIfAbsent(savepoint_products, ProductsAtRunStart)
    /\ before' = SessionTables
    /\ feedback' = NoFeedback
    /\ UNCHANGED <<panelVars, scriptVars, sessionVars, pageTables, page, fields, employees, quiz,
                   quiz_question>>

\* COMMIT and ROLLBACK tab: st.button("Start Transaction").
StartTransaction ==
    /\ page = "11_Transactions.py"
    /\ \E transaction_stock_update \in Amounts :
         LET found == InitIfAbsent(transaction_products, ProductsAtRunStart)
             failed == transaction_stock_update > found[1].stock
         IN  /\ inputs' = [kind |-> "Start Transaction", amount |-> transaction_stock_update]
             /\ message' = IF failed THEN "Transaction Failed: Insufficient stock!"
                           ELSE "Transaction in Progress..."
             /\ transaction_products' =
                    IF failed THEN found ELSE DeductLaptop(found, transaction_stock_update)
    /\ trigger' = "Start Transaction"
    /\ products' = ProductsAtRunStart
    /\ savepoint_products' = InitIfAbsent(savepoint_products, ProductsAtRunStart)
    /\ before' = SessionTables
    /\ feedback' = NoFeedback
    /\ UNCHANGED <<panelVars, scriptVars, sessionVars, pageTables, page, fields, employees, quiz,
                   quiz_question>>

\* st.button("COMMIT Transaction"): products.update(session table), on the
\* script-level `products` of this run.
CommitTransaction ==
    /\ page = "11_Transactions.py"
    /\ LET found == InitIfAbsent(transaction_products, ProductsAtRunStart)
           committed == Update(ProductsAtRunStart, found)
       IN  /\ transaction_products' = found
           /\ products' = committed
           /\ savepoint_products' = InitIfAbsent(savepoint_products, committed)
    /\ trigger' = "COMMIT Transaction"
    /\ inputs' = [kind |-> "COMMIT Transaction"]
    /\ message' = "Transaction Committed! Changes saved permanently."
    /\ before' = SessionTables
    /\ feedback' = NoFeedback
    /\ UNCHANGED <<panelVars, scriptVars, sessionVars, pageTables, page, fields, employees, quiz,
                   quiz_question>>

\* st.button("ROLLBACK Transaction"): the session table becomes a copy of the
\* script-level `products` of this run.
RollbackTransaction ==
    /\ page = "11_Transactions.py"
    /\ trigger' = "ROLLBACK Transaction"
    /\ inputs' = [kind |-> "ROLLBACK Transaction"]
    /\ message' = "Transaction Rolled Back! No changes were made."
    /\ products' = ProductsAtRunStart
    /\ transaction_products' = ProductsAtRunStart
    /\ savepoint_products' = InitIfAbsent(savepoint_products, ProductsAtRunStart)
    /\ before' = SessionTables
    /\ feedback' = NoFeedback
    /\ UNCHANGED <<panelVars, scriptVars, sessionVars, pageTables, page, fields, employees, quiz,
                   quiz_question>>

\* SAVEPOINT tab: st.button("Start Transaction with SAVEPOINT").
StartTransactionWithSavepoint ==
    /\ page = "11_Transactions.py"
    /\ \E savepoint_stock_update \in Amounts :
         LET found == InitIfAbsent(savepoint_products, ProductsAtRunStart)
             failed == savepoint_stock_update > found[1].stock
         IN  /\ inputs' = [kind |-> "Start Transaction with SAVEPOINT",
                           amount |-> savepoint_stock_update]
             /\ message' = IF failed THEN "Transaction Failed: Insufficient stock!"
                           ELSE "Savepoint Created!"
             /\ savepoint_products' =
                    IF failed THEN found ELSE DeductLaptop(found, savepoint_stock_update)
    /\ trigger' = "Start Transaction with SAVEPOINT"
    /\ products' = ProductsAtRunStart
    /\ transaction_products' = InitIfAbsent(transaction_products, ProductsAtRunStart)
    /\ before' = SessionTables
    /\ feedback' = NoFeedback
    /\ UNCHANGED <<panelVars, scriptVars, sessionVars, pageTables, page, fields, employees, quiz,
                   quiz_question>>

\* st.button("ROLLBACK to Savepoint").
RollbackToSavepoint ==
    /\ page = "11_Transactions.py"
    /\ trigger' = "ROLLBACK to Savepoint"
    /\ inputs' = [kind |-> "ROLLBACK to Savepoint"]
    /\ message' = "Rolled Back to Savepoint!"
    /\ products' = ProductsAtRunStart
    /\ transaction_products' = InitIfAbsent(transaction_products, ProductsAtRunStart)
    /\ savepoint_products' = ProductsAtRunStart
    /\ before' = SessionTables
    /\ feedback' = NoFeedback
    /\ UNCHANGED <<panelVars, scriptVars, sessionVars, pageTables, page, fields, employees, quiz,
                   quiz_question>>

\* st.button("Submit Answer", key="quiz_submit_transactions"): the run goes
\* through the tabs with no button of theirs pressed, then renders the
\* feedback of the quiz.  As with the number inputs of the tabs, the value
\* the quiz widget holds is drawn in the run that reads it.
SubmitAnswerTransactions ==
    /\ page = "11_Transactions.py"
    /\ \E selected \in WidgetValues(quiz) :
          /\ inputs' = [kind |-> "Submit Answer", selected |-> selected]
          /\ feedback' = Evaluate(quiz, selected)
    /\ trigger' = "Submit Answer"
    /\ message' = NoMessage
    /\ products' = ProductsAtRunStart
    /\ transaction_products' = InitIfAbsent(transaction_products, ProductsAtRunStart)
    /\ savepoint_products' = InitIfAbsent(savepoint_products, ProductsAtRunStart)
    /\ before' = SessionTables
    /\ UNCHANGED <<panelVars, scriptVars, sessionVars, pageTables, page, fields, employees, quiz,
                   quiz_question>>

\* The first run of the Transactions page in a session.
InitTransactions ==
    /\ page = "11_Transactions.py"
    /\ trigger = "load"
    /\ fields = NoFields
    /\ inputs = NoInputs
    /\ message = NoMessage
    /\ employees = NoTable
    /\ products = ProductsLiteral
    /\ transaction_products = InitIfAbsent(NoTable, ProductsLiteral)
    /\ savepoint_products = InitIfAbsent(NoTable, ProductsLiteral)
    /\ before = [transaction_products |-> NoTable, savepoint_products |-> NoTable]
    /\ quiz = "Transactions"
    /\ quiz_question = WidgetDefault("Transactions")
    /\ feedback = NoFeedback
    /\ sql_command = NoCommand
    /\ displayed = NoTable
    /\ pc = Done
    /\ data = NoTable
    /\ departments = NoTable
    /\ sales = NoTable
    /\ session_state = NoSessions
    /\ actor = NoActor
    /\ employees_a = NoTable
    /\ employees_b = NoTable
    /\ audit_log = NoTable

NextTransactions ==
    \/ PageLoad
    \/ Rerun
    \/ PerformTransaction
    \/ StartTransaction
    \/ CommitTransaction
    \/ RollbackTransaction
    \/ StartTransactionWithSavepoint
    \/ RollbackToSavepoint
    \/ SubmitAnswerTransactions

SpecTransactions == InitTransactions /\ [][NextTransactions]_vars

-----------------------------------------------------------------------------
(***************************************************************************)
(* TRANSACTIONS PAGE, SEVERAL BROWSER SESSIONS.  The server runs the page  *)
(* script once per interaction of any session, one run at a time per       *)
(* session; runs of different sessions interleave.  Every run executes the *)
(* script in a namespace of its own, so `products` is an object of the run, *)
(* and `st.session_state` is the store of the session the run belongs to.  *)
(* session_state[k] is the store with key k: a record of the two tables    *)
(* the script keeps there, NoTable for an absent key.                      *)
(***************************************************************************)
Sessions == {"A", "B"}

\* Amounts typed into the "Stock to Deduct" fields by the sessions.
SessionAmounts == {3, MaxDeduct}

SharedSessionState(s) == "A"

\* st.session_state inside a run of session s: the session's own store.
SessionStateOf(s) == s

St(s) == session_state[SessionStateOf(s)]

EmptySessionState == [transaction_products |-> NoTable, savepoint_products |-> NoTable]

\* The two `if "<key>" not in st.session_state` blocks of a run whose
\* script-level table is current_products when it reaches them.
InitSessionState(st, current_products) ==
    [transaction_products |-> InitIfAbsent(st.transaction_products, current_products),
     savepoint_products   |-> InitIfAbsent(st.savepoint_products, current_products)]

\* What a run of session s leaves: the session's store, the script-level
\* table at the end of the run and the button that triggered it.
SessionRun(s, button, st, current_products) ==
    /\ session_state' = [session_state EXCEPT ![SessionStateOf(s)] = st]
    /\ actor' = s
    /\ UNCHANGED pageTables
    /\ trigger' = button
    /\ products' = current_products
    /\ UNCHANGED <<page, fields, inputs, message, employees, transaction_products,
                   savepoint_products, before, quizVars, panelVars, scriptVars>>

\* Session s opens or reloads the page: a new session with an empty store,
\* and its first run.
SessionPageLoad(s) ==
    /\ page = "11_Transactions.py"
    /\ SessionRun(s, "load", InitSessionState(EmptySessionState, ProductsAtRunStart),
               ProductsAtRunStart)

\* A run of session s in which no button of the tabs is pressed.
SessionRerun(s) ==
    /\ page = "11_Transactions.py"
    /\ SessionRun(s, "widget", InitSessionState(St(s), ProductsAtRunStart), ProductsAtRunStart)

SessionPerformTransaction(s) ==
    /\ page = "11_Transactions.py"
    /\ \E product_to_update \in {r.product_name : r \in Range(ProductsAtRunStart)},
       stock_update \in SessionAmounts :
        LET failed == stock_update > StockByName(ProductsAtRunStart, product_to_update)
            updated == IF failed THEN ProductsAtRunStart
                       ELSE DeductByName(ProductsAtRunStart, product_to_update, stock_update)
        IN  SessionRun(s, "Perform Transaction", InitSessionState(St(s), updated), updated)

SessionStartTransaction(s) ==
    /\ page = "11_Transactions.py"
    /\ \E transaction_stock_update \in SessionAmounts :
        LET found == InitSessionState(St(s), ProductsAtRunStart)
            failed == transaction_stock_update > found.transaction_products[1].stock
            started == IF failed THEN found
                       ELSE [found EXCEPT !.transaction_products =
                                DeductLaptop(@, transaction_stock_update)]
        IN  SessionRun(s, "Start Transaction", started, ProductsAtRunStart)

SessionCommitTransaction(s) ==
    /\ page = "11_Transactions.py"
    /\ LET found == InitIfAbsent(St(s).transaction_products, ProductsAtRunStart)
           committed == Update(ProductsAtRunStart, found)
       IN  SessionRun(s, "COMMIT Transaction",
                      [transaction_products |-> found,
                       savepoint_products |-> InitIfAbsent(St(s).savepoint_products, committed)],
                      committed)

SessionRollbackTransaction(s) ==
    /\ page = "11_Transactions.py"
    /\ SessionRun(s, "ROLLBACK Transaction",
               [transaction_products |-> ProductsAtRunStart,
                savepoint_products |-> InitIfAbsent(St(s).savepoint_products,
                                                    ProductsAtRunStart)],
               ProductsAtRunStart)

SessionStartTransactionWithSavepoint(s) ==
    /\ page = "11_Transactions.py"
    /\ \E savepoint_stock_update \in SessionAmounts :
        LET found == InitSessionState(St(s), ProductsAtRunStart)
            failed == savepoint_stock_update > found.savepoint_products[1].stock
            started == IF failed THEN found
                       ELSE [found EXCEPT !.savepoint_products =
                                DeductLaptop(@, savepoint_stock_update)]
        IN  SessionRun(s, "Start Transaction with SAVEPOINT", started, ProductsAtRunStart)

SessionRollbackToSavepoint(s) ==
    /\ page = "11_Transactions.py"
    /\ SessionRun(s, "ROLLBACK to Savepoint",
               [transaction_products |-> InitIfAbsent(St(s).transaction_products,
                                                      ProductsAtRunStart),
                savepoint_products |-> ProductsAtRunStart],
               ProductsAtRunStart)

\* Both sessions have opened the page.
InitSessions ==
    /\ page = "11_Transactions.py"
    /\ trigger = "load"
    /\ fields = NoFields
    /\ inputs = NoInputs
    /\ message = NoMessage
    /\ employees = NoTable
    /\ products = ProductsLiteral
    /\ transaction_products = NoTable
    /\ savepoint_products = NoTable
    /\ before = NoTable
    /\ quiz = "Transactions"
    /\ quiz_question = WidgetDefault("Transactions")
    /\ feedback = NoFeedback
    /\ sql_command = NoCommand
    /\ displayed = NoTable
    /\ pc = Done
    /\ data = NoTable
    /\ departments = NoTable
    /\ sales = NoTable
    /\ session_state = [s \in Sessions |->
                           InitSessionState(EmptySessionState, ProductsLiteral)]
    /\ actor = NoActor
    /\ employees_a = NoTable
    /\ employees_b = NoTable
    /\ audit_log = NoTable

NextSessions ==
    \/ \E s \in Sessions : SessionPageLoad(s)
    \/ \E s \in Sessions : SessionRerun(s)
    \/ \E s \in Sessions : SessionPerformTransaction(s)
    \/ \E s \in Sessions : SessionStartTransaction(s)
    \/ \E s \in Sessions : SessionCommitTransaction(s)
    \/ \E s \in Sessions : SessionRollbackTransaction(s)
    \/ \E s \in Sessions : SessionStartTransactionWithSavepoint(s)
    \/ \E s \in Sessions : SessionRollbackToSavepoint(s)

SpecSessions == InitSessions /\ [][NextSessions]_vars

-----------------------------------------------------------------------------
(***************************************************************************)
(* CONSTRAINTS PAGE (7_Constraints.py) AND DATA MODIFICATION PAGE          *)
(* (6_Data_Modification.py).  A text (the value of st.text_input, a name   *)
(* or a department of the table) is the sequence of its pieces: a piece is *)
(* either one whitespace character, " ", or a run of non-whitespace        *)
(* characters such as "Alice".                                             *)
(***************************************************************************)

\* Longest text typed into a text field, in pieces.
MaxTextLen == 2
\* Largest Employee ID typed (min_value=1, step=1, no maximum).
MaxEmpId == 4

\* salary > 30000 of the CHECK tab; DEFAULT 40000 of the DEFAULT tab.
CheckLimit == 30000
DefaultSalary == 40000

Space == " "
Texts(pieces) == UNION {[1..n -> pieces] : n \in 0..MaxTextLen}

\* Values the user can give the fields.  <<"Alice", "Alice">> is the text
\* "AliceAlice", a name that is not in the table.
NameInputs       == Texts({Space, "Alice"})
DepartmentInputs == Texts({Space, "HR"})
EmpIdInputs      == 1..MaxEmpId
\* st.number_input(min_value=1, step=1): an int >= 1.
SalaryInputs     == {1, CheckLimit, CheckLimit + 1}

\* Python's None in a cell of the table.
None == <<"None">>

NoStrip(text) == text

\* str.strip(): the text without its leading and trailing whitespace.
RECURSIVE Strip(_)
Strip(text) ==
    IF text = <<>> THEN <<>>
    ELSE IF Head(text) = Space THEN Strip(Tail(text))
    ELSE IF text[Len(text)] = Space THEN Strip(SubSeq(text, 1, Len(text) - 1))
    ELSE text

\* employees = pd.DataFrame({...}) (the same literal on both pages)
EmployeesLiteral ==
    << [emp_id |-> 1, name |-> <<"Alice">>,   department |-> <<"HR">>,          salary |-> 50000],
       [emp_id |-> 2, name |-> <<"Bob">>,     department |-> <<"Engineering">>, salary |-> 60000],
       [emp_id |-> 3, name |-> <<"Charlie">>, department |-> <<"Marketing">>,   salary |-> 55000] >>

\* departments = pd.DataFrame({...})
DepartmentsLiteral ==
    << [dept_id |-> 101, department_name |-> <<"HR">>],
       [dept_id |-> 102, department_name |-> <<"Engineering">>],
       [dept_id |-> 103, department_name |-> <<"Marketing">>] >>

\* The script-level `employees` when a run reaches the tabs: the assignment
\* of the literal has just been executed again.
EmployeesAtRunStart == EmployeesLiteral

\* x in df[column].values
InColumn(x, df, column) == \E i \in DOMAIN df : df[i][column] = x

NewRow(emp_id, name, department, salary) ==
    [emp_id |-> emp_id, name |-> name, department |-> department, salary |-> salary]

\* pd.concat([employees, new_row], ignore_index=True)
Concat(df, new_row) == Append(df, new_row)

(***************************************************************************)
(* The widgets.  Every tab has its own fields and its own button, named    *)
(* here by the button's key.  `fields` holds the fields of the tab in view;  *)
(* the fields of a tab hold their initial values when the user moves to    *)
(* it.                                                                     *)
(***************************************************************************)
ConstraintsTabs == {"primary_key", "foreign_key", "unique_key", "check_key",
                    "notnull_key", "default_key"}
DataModificationTabs == {"insert_row", "update_salary_button", "delete_employee",
                         "merge_employee"}
\* Tabs whose fields are Employee ID, Name, Department and Salary.
RowTabs == ConstraintsTabs \cup {"insert_row", "merge_employee"}

TabsOf(p) == IF p = "7_Constraints.py" THEN ConstraintsTabs ELSE DataModificationTabs
FirstTab(p) == IF p = "7_Constraints.py" THEN "primary_key" ELSE "insert_row"

\* Initial values: st.number_input without `value` holds min_value,
\* st.text_input holds "", st.selectbox holds its first option.  The Salary
\* field of the DEFAULT tab (value=0) also records whether the user has
\* entered a value into it; the script itself sees only the value.
FieldDefaults(key) ==
    CASE key = "delete_employee" ->
            [kind |-> key, emp_id |-> EmployeesAtRunStart[1].emp_id]
      [] key = "update_salary_button" ->
            [kind |-> key, emp_id |-> EmployeesAtRunStart[1].emp_id, salary |-> 1]
      [] key = "default_key" ->
            [kind |-> key, emp_id |-> 1, name |-> <<>>, department |-> <<>>, salary |-> 0,
             entered |-> FALSE]
      [] OTHER ->
            [kind |-> key, emp_id |-> 1, name |-> <<>>, department |-> <<>>, salary |-> 1]

\* Employee ID: a number input on the row tabs, a select box over the emp_id
\* column of the table on the UPDATE and DELETE tabs.
EmpIdChoices(key) ==
    IF key \in RowTabs THEN EmpIdInputs
    ELSE {r.emp_id : r \in Range(EmployeesAtRunStart)}

\* Salary: min_value=0 on the DEFAULT tab, min_value=1 elsewhere.
SalaryChoices(key) ==
    IF key = "default_key" THEN SalaryInputs \cup {0} ELSE SalaryInputs

\* sql_command = f"..." followed by st.code(sql_command): the command the tab
\* in view renders, with the values of its fields put into the text.  The
\* tabs of the Constraints page render a fixed CREATE TABLE text.
SqlCommand(flds) ==
    CASE flds.kind = "insert_row" ->
            [op |-> "INSERT INTO", emp_id |-> flds.emp_id, name |-> flds.name,
             department |-> flds.department, salary |-> flds.salary]
      [] flds.kind = "update_salary_button" ->
            [op |-> "UPDATE", emp_id |-> flds.emp_id, salary |-> flds.salary]
      [] flds.kind = "delete_employee" ->
            [op |-> "DELETE", emp_id |-> flds.emp_id]
      [] flds.kind = "merge_employee" ->
            [op |-> "MERGE", emp_id |-> flds.emp_id, name |-> flds.name,
             department |-> flds.department, salary |-> flds.salary]
      [] OTHER ->
            [op |-> "CREATE TABLE", constraint |-> flds.kind]

\* st.dataframe(employees) of the tab in view.  A tab of the Data Modification
\* page renders the table in every run; a tab of the Constraints page renders
\* it inside its button's handler only.
TableInView(p, button, df) ==
    IF p = "6_Data_Modification.py" \/ button \in ConstraintsTabs THEN df ELSE NoTable

\* What a run in which no button is pressed leaves: the table of the literal
\* and no message.
NoButton ==
    /\ trigger' = "widget"
    /\ inputs' = NoInputs
    /\ message' = NoMessage
    /\ employees' = EmployeesAtRunStart

\* What every run of one of the two pages leaves outside the employees table.
EmployeesFrame ==
    /\ before' = [employees |-> EmployeesAtRunStart]
    /\ sql_command' = SqlCommand(fields')
    /\ displayed' = TableInView(page, trigger', employees')
    /\ UNCHANGED <<scriptVars, sessionVars, pageTables>>
    /\ UNCHANGED <<page, products, transaction_products, savepoint_products, quizVars>>

OnEmployeesPage == page \in {"7_Constraints.py", "6_Data_Modification.py"}

\* First run of the page in a session.
PageLoadEmployees ==
    /\ OnEmployeesPage
    /\ trigger' = "load"
    /\ fields' = FieldDefaults(FirstTab(page))
    /\ inputs' = NoInputs
    /\ message' = NoMessage
    /\ employees' = EmployeesAtRunStart
    /\ EmployeesFrame

\* The user moves to another tab of the page.  Clicking a tab runs nothing:
\* what the last run rendered stays, and `fields` shows the new tab's fields.
SwitchTab ==
    /\ OnEmployeesPage
    /\ \E key \in TabsOf(page) \ {fields.kind} : fields' = FieldDefaults(key)
    /\ UNCHANGED <<trigger, inputs, message, employees, before>>
    /\ UNCHANGED <<panelVars, scriptVars, sessionVars, pageTables>>
    /\ UNCHANGED <<page, products, transaction_products, savepoint_products, quizVars>>

\* The user changes one field of the tab: a run with no button pressed.
EditEmpId ==
    /\ OnEmployeesPage
    /\ \E v \in EmpIdChoices(fields.kind) \ {fields.emp_id} :
          fields' = [fields EXCEPT !.emp_id = v]
    /\ NoButton
    /\ EmployeesFrame

EditName ==
    /\ OnEmployeesPage
    /\ fields.kind \in RowTabs
    /\ \E v \in NameInputs \ {fields.name} : fields' = [fields EXCEPT !.name = v]
    /\ NoButton
    /\ EmployeesFrame

EditDepartment ==
    /\ OnEmployeesPage
    /\ fields.kind \in RowTabs
    /\ \E v \in DepartmentInputs \ {fields.department} :
          fields' = [fields EXCEPT !.department = v]
    /\ NoButton
    /\ EmployeesFrame

EditSalary ==
    /\ OnEmployeesPage
    /\ fields.kind # "delete_employee"
    /\ \E v \in SalaryChoices(fields.kind) \ {fields.salary} :
          fields' = IF fields.kind = "default_key"
                    THEN [fields EXCEPT !.salary = v, !.entered = TRUE]
                    ELSE [fields EXCEPT !.salary = v]
    /\ NoButton
    /\ EmployeesFrame

\* What a run in which the button `key` is pressed leaves besides the table
\* and the message.
Pressed(key) ==
    /\ trigger' = key
    /\ inputs' = fields
    /\ UNCHANGED fields
    /\ EmployeesFrame

AddRowPrimaryKeyNoCheck ==
    /\ page = "7_Constraints.py"
    /\ fields.kind = "primary_key"
    /\ LET new_row == NewRow(fields.emp_id, fields.name, fields.department, fields.salary)
       IN  /\ message' = "Row added successfully! PRIMARY KEY constraint maintained."
           /\ employees' = Concat(EmployeesAtRunStart, new_row)
    /\ Pressed("primary_key")

\* PRIMARY KEY tab: st.button("Add Row", key="primary_key").
AddRowPrimaryKey ==
    /\ page = "7_Constraints.py"
    /\ fields.kind = "primary_key"
    /\ LET new_emp_id == fields.emp_id
           new_row == NewRow(new_emp_id, fields.name, fields.department, fields.salary)
           duplicate == InColumn(new_emp_id, EmployeesAtRunStart, "emp_id")
       IN  /\ message' = IF duplicate
                         THEN "Duplicate Employee ID! The PRIMARY KEY constraint is violated."
                         ELSE "Row added successfully! PRIMARY KEY constraint maintained."
           /\ employees' = IF duplicate THEN EmployeesAtRunStart
                           ELSE Concat(EmployeesAtRunStart, new_row)
    /\ Pressed("primary_key")

\* FOREIGN KEY tab: st.button("Add Row", key="foreign_key").
AddRowForeignKey ==
    /\ page = "7_Constraints.py"
    /\ fields.kind = "foreign_key"
    /\ LET new_department == IF Strip(fields.department) # <<>>
                             THEN fields.department ELSE None
           new_row == NewRow(fields.emp_id, fields.name, new_department, fields.salary)
           violated == /\ new_department # None
                       /\ ~InColumn(new_department, DepartmentsLiteral, "department_name")
       IN  /\ message' = IF violated
                         THEN "Department does not exist in Departments table. FOREIGN KEY constraint violated."
                         ELSE "Row added successfully! FOREIGN KEY constraint maintained."
           /\ employees' = IF violated THEN EmployeesAtRunStart
                           ELSE Concat(EmployeesAtRunStart, new_row)
    /\ Pressed("foreign_key")

\* UNIQUE tab: st.button("Add Row", key="unique_key").
AddRowUnique ==
    /\ page = "7_Constraints.py"
    /\ fields.kind = "unique_key"
    /\ LET new_name == fields.name
           new_row == NewRow(fields.emp_id, new_name, fields.department, fields.salary)
           violated == InColumn(new_name, EmployeesAtRunStart, "name")
       IN  /\ message' = IF violated
                         THEN "Employee name already exists. UNIQUE constraint violated."
                         ELSE "Row added successfully! UNIQUE constraint maintained."
           /\ employees' = IF violated THEN EmployeesAtRunStart
                           ELSE Concat(EmployeesAtRunStart, new_row)
    /\ Pressed("unique_key")

\* CHECK tab: st.button("Add Row", key="check_key").
AddRowCheck ==
    /\ page = "7_Constraints.py"
    /\ fields.kind = "check_key"
    /\ LET new_salary == fields.salary
           new_row == NewRow(fields.emp_id, fields.name, fields.department, new_salary)
           violated == new_salary <= CheckLimit
       IN  /\ message' = IF violated
                         THEN "Salary does not meet the CHECK constraint (salary > 30000)."
                         ELSE "Row added successfully! CHECK constraint maintained."
           /\ employees' = IF violated THEN EmployeesAtRunStart
                           ELSE Concat(EmployeesAtRunStart, new_row)
    /\ Pressed("check_key")

\* NOT NULL tab: st.button("Add Row", key="notnull_key").
AddRowNotNull ==
    /\ page = "7_Constraints.py"
    /\ fields.kind = "notnull_key"
    /\ LET new_name == fields.name
           new_row == NewRow(fields.emp_id, new_name, fields.department, fields.salary)
           violated == Strip(new_name) = <<>>
       IN  /\ message' = IF violated
                         THEN "Name cannot be NULL or empty. NOT NULL constraint violated."
                         ELSE "Row added successfully! NOT NULL constraint maintained."
           /\ employees' = IF violated THEN EmployeesAtRunStart
                           ELSE Concat(EmployeesAtRunStart, new_row)
    /\ Pressed("notnull_key")

\* DEFAULT tab: st.button("Add Row", key="default_key").
AddRowDefault ==
    /\ page = "7_Constraints.py"
    /\ fields.kind = "default_key"
    /\ LET new_salary == fields.salary
           salary_to_insert == IF new_salary # 0 THEN new_salary ELSE DefaultSalary
           new_row == NewRow(fields.emp_id, fields.name, fields.department, salary_to_insert)
       IN  employees' = Concat(EmployeesAtRunStart, new_row)
    /\ message' = "Row added successfully! DEFAULT constraint applied where necessary."
    /\ Pressed("default_key")

\* INSERT INTO tab: st.button("Insert Row", key="insert_row").
InsertRow ==
    /\ page = "6_Data_Modification.py"
    /\ fields.kind = "insert_row"
    /\ LET new_row == NewRow(fields.emp_id, fields.name, fields.department, fields.salary)
       IN  employees' = Concat(EmployeesAtRunStart, new_row)
    /\ message' = "New employee added!"
    /\ Pressed("insert_row")

\* UPDATE tab: st.button("Update Salary", key="update_salary_button").
UpdateSalary ==
    /\ page = "6_Data_Modification.py"
    /\ fields.kind = "update_salary_button"
    /\ LET update_emp_id == fields.emp_id
           new_salary == fields.salary
       IN  employees' = [i \in DOMAIN EmployeesAtRunStart |->
                            IF EmployeesAtRunStart[i].emp_id = update_emp_id
                            THEN [EmployeesAtRunStart[i] EXCEPT !.salary = new_salary]
                            ELSE EmployeesAtRunStart[i]]
    /\ message' = "Employee salary updated!"
    /\ Pressed("update_salary_button")

\* df[df[column] != x], rows kept in order.
RECURSIVE DropWhere(_, _, _)
DropWhere(df, column, x) ==
    IF df = <<>> THEN <<>>
    ELSE IF Head(df)[column] = x THEN DropWhere(Tail(df), column, x)
    ELSE <<Head(df)>> \o DropWhere(Tail(df), column, x)

\* DELETE tab: st.button("Delete Employee", key="delete_employee").
DeleteEmployee ==
    /\ page = "6_Data_Modification.py"
    /\ fields.kind = "delete_employee"
    /\ employees' = DropWhere(EmployeesAtRunStart, "emp_id", fields.emp_id)
    /\ message' = "Employee deleted!"
    /\ Pressed("delete_employee")

MergeEmployeeAlwaysInserting ==
    /\ page = "6_Data_Modification.py"
    /\ fields.kind = "merge_employee"
    /\ LET merge_emp_id == fields.emp_id
           new_row == NewRow(merge_emp_id, fields.name, fields.department, fields.salary)
       IN  /\ message' = "New employee record inserted!"
           /\ employees' = Concat(EmployeesAtRunStart, new_row)
    /\ Pressed("merge_employee")

\* MERGE (UPSERT) tab: st.button("Merge Employee", key="merge_employee").
MergeEmployee ==
    /\ page = "6_Data_Modification.py"
    /\ fields.kind = "merge_employee"
    /\ LET merge_emp_id == fields.emp_id
           new_row == NewRow(merge_emp_id, fields.name, fields.department, fields.salary)
           exists == InColumn(merge_emp_id, EmployeesAtRunStart, "emp_id")
       IN  /\ message' = IF exists THEN "Employee record updated!"
                         ELSE "New employee record inserted!"
           /\ employees' =
                  IF exists
                  THEN [i \in DOMAIN EmployeesAtRunStart |->
                          IF EmployeesAtRunStart[i].emp_id = merge_emp_id
                          THEN [EmployeesAtRunStart[i] EXCEPT
                                   !.name = fields.name,
                                   !.department = fields.department,
                                   !.salary = fields.salary]
                          ELSE EmployeesAtRunStart[i]]
                  ELSE Concat(EmployeesAtRunStart, new_row)
    /\ Pressed("merge_employee")

\* The first run of the Constraints or of the Data Modification page.
InitEmployees ==
    /\ OnEmployeesPage
    /\ trigger = "load"
    /\ fields = FieldDefaults(FirstTab(page))
    /\ inputs = NoInputs
    /\ message = NoMessage
    /\ employees = EmployeesLiteral
    /\ products = NoTable
    /\ transaction_products = NoTable
    /\ savepoint_products = NoTable
    /\ before = [employees |-> EmployeesLiteral]
    /\ sql_command = SqlCommand(fields)
    /\ displayed = TableInView(page, trigger, employees)
    /\ pc = Done
    /\ data = NoTable
    /\ departments = NoTable
    /\ sales = NoTable
    /\ session_state = NoSessions
    /\ actor = NoActor
    /\ employees_a = NoTable
    /\ employees_b = NoTable
    /\ audit_log = NoTable
    /\ quiz = IF page = "7_Constraints.py" THEN "Constraints" ELSE "Data Modification"
    /\ quiz_question = WidgetDefault(quiz)
    /\ feedback = NoFeedback

NextEmployees ==
    \/ PageLoadEmployees
    \/ SwitchTab
    \/ EditEmpId
    \/ EditName
    \/ EditDepartment
    \/ EditSalary
    \/ AddRowPrimaryKey
    \/ AddRowForeignKey
    \/ AddRowUnique
    \/ AddRowCheck
    \/ AddRowNotNull
    \/ AddRowDefault
    \/ InsertRow
    \/ UpdateSalary
    \/ DeleteEmployee
    \/ MergeEmployee

SpecEmployees == InitEmployees /\ [][NextEmployees]_vars

-----------------------------------------------------------------------------
(***************************************************************************)
(* BASIC SQL QUERIES PAGE (1_Basic_SQL_Queries.py), WHERE and IN tabs.     *)
(* The page has no button in its tabs: every run computes what each tab    *)
(* shows from the values its widgets hold.  A text is the sequence of its  *)
(* pieces, a piece being one character (a digit, the point, the comma, the *)
(* space) or a word of letters that the model never splits ("nan", "HR").  *)
(***************************************************************************)

\* Longest text typed into a filter field, in pieces.
MaxFilterLen == 3

Digits == {"3", "0"}
FilterPieces == Digits \cup {".", ",", Space, "nan", "HR"}

\* data = pd.DataFrame({...})
DataLiteral ==
    << [id |-> 1, name |-> <<"Alice">>,   age |-> 25, department |-> <<"HR">>,
        city |-> <<"New", Space, "York">>],
       [id |-> 2, name |-> <<"Bob">>,     age |-> 35, department |-> <<"Engineering">>,
        city |-> <<"Los", Space, "Angeles">>],
       [id |-> 3, name |-> <<"Charlie">>, age |-> 30, department |-> <<"Marketing">>,
        city |-> <<"Chicago">>],
       [id |-> 4, name |-> <<"David">>,   age |-> 40, department |-> <<"Engineering">>,
        city |-> <<"San", Space, "Francisco">>],
       [id |-> 5, name |-> <<"Eva">>,     age |-> 29, department |-> <<"HR">>,
        city |-> <<"New", Space, "York">>] >>

\* data.columns
DataColumns == <<"id", "name", "age", "department", "city">>

\* pd.api.types.is_numeric_dtype(data[column])
IsNumericDtype(column) == column \in {"id", "age"}

\* The text "Engineering, HR" that the IN tab's field holds at first.
InValuesDefault == <<"Engineering", ",", Space, "HR">>

DigitValue(d) == IF d = "3" THEN 3 ELSE 0

\* The integer written by a sequence of digits.
RECURSIVE IntOf(_)
IntOf(ds) ==
    IF ds = <<>> THEN 0
    ELSE 10 * IntOf(SubSeq(ds, 1, Len(ds) - 1)) + DigitValue(ds[Len(ds)])

RECURSIVE Pow10(_)
Pow10(n) == IF n = 0 THEN 1 ELSE 10 * Pow10(n - 1)

ValueError == [kind |-> "ValueError"]
NaN        == [kind |-> "nan"]

\* float(text): surrounding whitespace is dropped; "nan" is accepted and gives
\* the float nan; a decimal numeral (digits with at most one point and at
\* least one digit) gives its value, held as mantissa / 10^scale; any other
\* text raises ValueError.
ParseFloat(text) ==
    LET t == Strip(text)
        points == {i \in DOMAIN t : t[i] = "."}
        IsDigit(a) == a \in Digits
    IN  IF t = <<"nan">> THEN NaN
        ELSE IF /\ \A i \in DOMAIN t : t[i] \in Digits \cup {"."}
                /\ Cardinality(points) <= 1
                /\ \E i \in DOMAIN t : t[i] \in Digits
             THEN [kind     |-> "number",
                   mantissa |-> IntOf(SelectSeq(t, IsDigit)),
                   scale    |-> IF points = {} THEN 0
                                ELSE Len(t) - (CHOOSE i \in points : TRUE)]
             ELSE ValueError

\* cell == value for an integer cell and a float: nan equals nothing.
EqualsFloat(cell, value) ==
    /\ value.kind = "number"
    /\ value.mantissa = cell * Pow10(value.scale)

\* text.split(','): the pieces between the commas, in order.
RECURSIVE Split(_)
Split(text) ==
    LET commas == {i \in DOMAIN text : text[i] = ","}
    IN  IF commas = {} THEN <<text>>
        ELSE LET first == CHOOSE i \in commas : \A j \in commas : i <= j
             IN  <<SubSeq(text, 1, first - 1)>> \o
                 Split(SubSeq(text, first + 1, Len(text)))

\* data[data[column].isin(values_list)] for a list of str: an integer cell
\* equals no str, a text cell is kept when it is one of the list.
IsIn(column, cell, values_list) ==
    IF IsNumericDtype(column) THEN FALSE
    ELSE \E i \in DOMAIN values_list : values_list[i] = cell

\* WHERE tab: what the tab renders for the values of its two widgets.
WhereTab(column_filter, value_filter) ==
    IF value_filter # <<>>
    THEN IF IsNumericDtype(column_filter)
         THEN LET value == ParseFloat(value_filter)
                  Matches(r) == EqualsFloat(r[column_filter], value)
              IN  IF value = ValueError
                  THEN [message       |-> "Invalid input for a numeric column. Please enter a number.",
                        filtered_data |-> DataLiteral,
                        sql_command   |-> [op |-> "-- Invalid input. Could not generate SQL command."]]
                  ELSE [message       |-> NoMessage,
                        filtered_data |-> SelectSeq(DataLiteral, Matches),
                        sql_command   |-> [op |-> "SELECT * FROM table_name WHERE",
                                           column |-> column_filter, value |-> value,
                                           quoted |-> FALSE]]
         ELSE LET Matches(r) == r[column_filter] = value_filter
              IN  [message       |-> NoMessage,
                   filtered_data |-> SelectSeq(DataLiteral, Matches),
                   sql_command   |-> [op |-> "SELECT * FROM table_name WHERE",
                                      column |-> column_filter, value |-> value_filter,
                                      quoted |-> TRUE]]
    ELSE [message       |-> NoMessage,
          filtered_data |-> DataLiteral,
          sql_command   |-> [op |-> "SELECT * FROM table_name; -- No filter applied"]]

\* IN tab: the tab renders a table only, no message and no command.
InTab(in_column, in_values) ==
    LET parts == Split(in_values)
        values_list == [i \in DOMAIN parts |-> Strip(parts[i])]
        Matches(r) == IsIn(in_column, r[in_column], values_list)
    IN  [message       |-> NoMessage,
         filtered_data |-> IF in_values # <<>> THEN SelectSeq(DataLiteral, Matches)
                           ELSE DataLiteral,
         sql_command   |-> NoCommand]

\* Initial widget values: st.selectbox holds its first option, st.text_input
\* its `value` argument or "".
BasicFieldDefaults(tab) ==
    [kind |-> tab, column |-> DataColumns[1],
     value |-> IF tab = "IN" THEN InValuesDefault ELSE <<>>]

RenderBasic(flds) ==
    IF flds.kind = "WHERE" THEN WhereTab(flds.column, flds.value)
    ELSE InTab(flds.column, flds.value)

\* A run of the page, seen in the tab in view.
RunBasic ==
    /\ trigger' = "widget"
    /\ inputs' = NoInputs
    /\ message' = RenderBasic(fields').message
    /\ displayed' = RenderBasic(fields').filtered_data
    /\ sql_command' = RenderBasic(fields').sql_command
    /\ data' = DataLiteral
    /\ UNCHANGED <<page, employees, products, transaction_products, savepoint_products,
                   before, quizVars, pc, departments, sales, sessionVars, pageTables>>

\* column_filter = st.selectbox("Choose a column to filter:", data.columns)
ChooseColumnFilter ==
    /\ page = "1_Basic_SQL_Queries.py"
    /\ fields.kind = "WHERE"
    /\ \E c \in Range(DataColumns) \ {fields.column} : fields' = [fields EXCEPT !.column = c]
    /\ RunBasic

\* The texts the user can leave in a field by typing or deleting one piece.
Edits(text) ==
    {Append(text, a) : a \in IF Len(text) < MaxFilterLen THEN FilterPieces ELSE {}}
        \cup (IF text = <<>> THEN {} ELSE {SubSeq(text, 1, Len(text) - 1)})

\* value_filter = st.text_input("Enter a value to filter by ...")
EnterValueFilter ==
    /\ page = "1_Basic_SQL_Queries.py"
    /\ fields.kind = "WHERE"
    /\ \E v \in Edits(fields.value) : fields' = [fields EXCEPT !.value = v]
    /\ RunBasic

\* in_column = st.selectbox("Choose a column for filtering:", data.columns)
ChooseInColumn ==
    /\ page = "1_Basic_SQL_Queries.py"
    /\ fields.kind = "IN"
    /\ \E c \in Range(DataColumns) \ {fields.column} : fields' = [fields EXCEPT !.column = c]
    /\ RunBasic

\* in_values = st.text_input("Enter values to match (comma-separated):", "Engineering, HR")
EnterInValues ==
    /\ page = "1_Basic_SQL_Queries.py"
    /\ fields.kind = "IN"
    /\ \E v \in Edits(fields.value) : fields' = [fields EXCEPT !.value = v]
    /\ RunBasic

\* The first run of the page, and the user looking at the WHERE or the IN tab.
InitBasicSQL ==
    /\ page = "1_Basic_SQL_Queries.py"
    /\ trigger = "load"
    /\ fields \in {BasicFieldDefaults("WHERE"), BasicFieldDefaults("IN")}
    /\ inputs = NoInputs
    /\ message = RenderBasic(fields).message
    /\ displayed = RenderBasic(fields).filtered_data
    /\ sql_command = RenderBasic(fields).sql_command
    /\ data = DataLiteral
    /\ employees = NoTable
    /\ products = NoTable
    /\ transaction_products = NoTable
    /\ savepoint_products = NoTable
    /\ before = NoTable
    /\ quiz = "Basic SQL Queries"
    /\ quiz_question = WidgetDefault(quiz)
    /\ feedback = NoFeedback
    /\ pc = Done
    /\ departments = NoTable
    /\ sales = NoTable
    /\ session_state = NoSessions
    /\ actor = NoActor
    /\ employees_a = NoTable
    /\ employees_b = NoTable
    /\ audit_log = NoTable

NextBasicSQL ==
    \/ ChooseColumnFilter
    \/ EnterValueFilter
    \/ ChooseInColumn
    \/ EnterInValues

SpecBasicSQL == InitBasicSQL /\ [][NextBasicSQL]_vars

-----------------------------------------------------------------------------
(***************************************************************************)
(* ADVANCED SQL PAGE (14__Advanced_SQL.py).  The tabs of this page have no *)
(* widgets; the only widgets are those of the quiz.  A run is followed     *)
(* here tab by tab: pc is the `with tabs[i]:` block the run executes next, *)
(* and `sales` is the script-level table as the blocks before it left it.  *)
(* A row is a function from column names to values, so that a column can   *)
(* be added to a table.                                                    *)
(***************************************************************************)

\* sales = pd.DataFrame({...})
SalesLiteral ==
    << [sale_id |-> 1, product |-> "Laptop", category |-> "Electronics",
        region |-> "North", quantity |-> 2, price |-> 1000],
       [sale_id |-> 2, product |-> "Phone",  category |-> "Electronics",
        region |-> "South", quantity |-> 3, price |-> 500],
       [sale_id |-> 3, product |-> "Tablet", category |-> "Electronics",
        region |-> "North", quantity |-> 1, price |-> 300],
       [sale_id |-> 4, product |-> "Laptop", category |-> "Electronics",
        region |-> "East",  quantity |-> 5, price |-> 1000],
       [sale_id |-> 5, product |-> "Phone",  category |-> "Electronics",
        region |-> "West",  quantity |-> 4, price |-> 500] >>

\* df.columns, for a table with at least one row.
ColumnsOf(df) == DOMAIN df[1]

\* df[column] = values: the column is added, or replaced if it exists.
WithColumn(df, column, values) ==
    [i \in DOMAIN df |->
        [c \in DOMAIN df[i] \cup {column} |-> IF c = column THEN values[i] ELSE df[i][c]]]

\* df[[c1, c2, ...]]
Project(df, columns) == [i \in DOMAIN df |-> [c \in columns |-> df[i][c]]]

\* The sum of f over a finite set of row indices.
RECURSIVE SumOver(_, _, _)
SumOver(df, rows, column) ==
    IF rows = {} THEN 0
    ELSE LET i == CHOOSE i \in rows : TRUE
         IN  df[i][column] + SumOver(df, rows \ {i}, column)

\* The rows of the group of row i in df.groupby('region').
Group(df, i) == {j \in DOMAIN df : df[j].region = df[i].region}

\* groupby('region')['quantity'].rank(method=..., ascending=False).astype(int)
RankFirst(df) ==
    [i \in DOMAIN df |->
        1 + Cardinality({j \in Group(df, i) :
                            \/ df[j].quantity > df[i].quantity
                            \/ df[j].quantity = df[i].quantity /\ j < i})]
RankMin(df) ==
    [i \in DOMAIN df |->
        1 + Cardinality({j \in Group(df, i) : df[j].quantity > df[i].quantity})]
RankDense(df) ==
    [i \in DOMAIN df |->
        1 + Cardinality({df[j].quantity : j \in {k \in Group(df, i) :
                                                   df[k].quantity > df[i].quantity}})]

\* groupby('region')['quantity'].cumsum()
CumSum(df) ==
    [i \in DOMAIN df |-> SumOver(df, {j \in Group(df, i) : j <= i}, "quantity")]

\* groupby('region').apply(lambda x: (x['quantity'] * x['price']).sum()): one
\* row per region, held as the set of the rows.
RegionRevenue(df) ==
    LET revenue == [i \in DOMAIN df |-> [revenue |-> df[i].quantity * df[i].price]]
    IN  {[region |-> df[i].region,
          total_revenue |-> SumOver(revenue, Group(df, i), "revenue")] : i \in DOMAIN df}

\* pivot_table(index='region', columns='product', values='quantity',
\*             aggfunc='sum', fill_value=0), held as the set of its rows.
PivotData(df) ==
    {[p \in {"region"} \cup {df[k].product : k \in DOMAIN df} |->
         IF p = "region" THEN df[i].region
         ELSE SumOver(df, {j \in Group(df, i) : df[j].product = p}, "quantity")]
     : i \in DOMAIN df}

AdvancedTabs == <<"CTEs", "Window Functions", "Recursive Queries", "Pivoting Data",
                  "Analytical Functions", "Performance Tuning", "quiz">>

\* The block that follows block `tab` in the script.
NextBlock(tab) ==
    IF tab = "quiz" THEN Done
    ELSE AdvancedTabs[1 + CHOOSE i \in DOMAIN AdvancedTabs : AdvancedTabs[i] = tab]

\* What a block of the script leaves unchanged.
AdvancedFrame ==
    UNCHANGED <<page, trigger, fields, inputs, message, employees, products,
                transaction_products, savepoint_products, before, quiz, quiz_question,
                data, departments, sessionVars, pageTables>>

\* with tabs[0]: region_revenue is computed from sales and displayed.
CTEsTab ==
    /\ page = "14__Advanced_SQL.py"
    /\ pc = "CTEs"
    /\ sql_command' = [op |-> "WITH RegionRevenue AS (...) SELECT * FROM RegionRevenue"]
    /\ displayed' = RegionRevenue(sales)
    /\ pc' = NextBlock(pc)
    /\ UNCHANGED <<sales, feedback>>
    /\ AdvancedFrame

\* with tabs[1]: three columns are assigned into sales, then seven columns of
\* sales are displayed.
WindowFunctionsTab ==
    /\ page = "14__Advanced_SQL.py"
    /\ pc = "Window Functions"
    /\ sql_command' = [op |-> "SELECT ..., ROW_NUMBER() OVER (...), RANK() OVER (...), DENSE_RANK() OVER (...) FROM sales"]
    /\ LET s1 == WithColumn(sales, "row_number", RankFirst(sales))
           s2 == WithColumn(s1, "rank", RankMin(s1))
           s3 == WithColumn(s2, "dense_rank", RankDense(s2))
       IN  /\ sales' = s3
           /\ displayed' = Project(s3, {"sale_id", "region", "product", "quantity",
                                        "row_number", "rank", "dense_rank"})
    /\ pc' = NextBlock(pc)
    /\ UNCHANGED feedback
    /\ AdvancedFrame

\* with tabs[2]: numbers = pd.DataFrame({'num': list(range(1, 11))})
RecursiveQueriesTab ==
    /\ page = "14__Advanced_SQL.py"
    /\ pc = "Recursive Queries"
    /\ sql_command' = [op |-> "WITH RECURSIVE Numbers AS (...) SELECT * FROM Numbers"]
    /\ displayed' = [i \in 1..10 |-> [num |-> i]]
    /\ pc' = NextBlock(pc)
    /\ UNCHANGED <<sales, feedback>>
    /\ AdvancedFrame

\* with tabs[3]: pivot_data is computed from sales and displayed.
PivotingDataTab ==
    /\ page = "14__Advanced_SQL.py"
    /\ pc = "Pivoting Data"
    /\ sql_command' = [op |-> "SELECT region, SUM(CASE ...) ... FROM sales GROUP BY region"]
    /\ displayed' = PivotData(sales)
    /\ pc' = NextBlock(pc)
    /\ UNCHANGED <<sales, feedback>>
    /\ AdvancedFrame

\* with tabs[4]: a column is assigned into sales, then five columns of sales
\* are displayed.
AnalyticalFunctionsTab ==
    /\ page = "14__Advanced_SQL.py"
    /\ pc = "Analytical Functions"
    /\ sql_command' = [op |-> "SELECT ..., SUM(quantity) OVER (PARTITION BY region ORDER BY sale_id) FROM sales"]
    /\ LET s1 == WithColumn(sales, "cumulative_quantity", CumSum(sales))
       IN  /\ sales' = s1
           /\ displayed' = Project(s1, {"sale_id", "region", "product", "quantity",
                                        "cumulative_quantity"})
    /\ pc' = NextBlock(pc)
    /\ UNCHANGED feedback
    /\ AdvancedFrame

\* with tabs[5]: text only.
PerformanceTuningTab ==
    /\ page = "14__Advanced_SQL.py"
    /\ pc = "Performance Tuning"
    /\ sql_command' = [op |-> "CREATE INDEX idx_region ON sales(region)"]
    /\ displayed' = NoTable
    /\ pc' = NextBlock(pc)
    /\ UNCHANGED <<sales, feedback>>
    /\ AdvancedFrame

\* The quiz section at the end of the script: the feedback is rendered in the
\* run that the Submit Answer button has triggered.
QuizSection ==
    /\ page = "14__Advanced_SQL.py"
    /\ pc = "quiz"
    /\ feedback' = IF trigger = "Submit Answer" THEN Evaluate(quiz, quiz_question)
                   ELSE NoFeedback
    /\ pc' = NextBlock(pc)
    /\ UNCHANGED <<sales, panelVars>>
    /\ AdvancedFrame

\* What the start of a run leaves: the literal is assigned to sales again and
\* everything the last run rendered is cleared.
StartRun(button) ==
    /\ pc = Done
    /\ pc' = AdvancedTabs[1]
    /\ trigger' = button
    /\ sales' = SalesLiteral
    /\ sql_command' = NoCommand
    /\ displayed' = NoTable
    /\ feedback' = NoFeedback
    /\ UNCHANGED <<page, fields, inputs, message, employees, products,
                   transaction_products, savepoint_products, before, quiz,
                   data, departments, sessionVars, pageTables>>

\* The user changes the selection of the quiz: a new run starts.
SelectAnswerAdvanced ==
    /\ page = "14__Advanced_SQL.py"
    /\ \E selected \in WidgetValues(quiz) \ {quiz_question} : quiz_question' = selected
    /\ StartRun("widget")

\* The user presses Submit Answer: a new run starts.
SubmitAnswerAdvanced ==
    /\ page = "14__Advanced_SQL.py"
    /\ UNCHANGED quiz_question
    /\ StartRun("Submit Answer")

\* The first run of the page has assigned the literal to sales and reached
\* the tabs.
InitAdvancedSQL ==
    /\ page = "14__Advanced_SQL.py"
    /\ trigger = "load"
    /\ pc = AdvancedTabs[1]
    /\ sales = SalesLiteral
    /\ sql_command = NoCommand
    /\ displayed = NoTable
    /\ fields = NoFields
    /\ inputs = NoInputs
    /\ message = NoMessage
    /\ employees = NoTable
    /\ products = NoTable
    /\ transaction_products = NoTable
    /\ savepoint_products = NoTable
    /\ before = NoTable
    /\ quiz = "Advanced SQL"
    /\ quiz_question = WidgetDefault(quiz)
    /\ feedback = NoFeedback
    /\ data = NoTable
    /\ departments = NoTable
    /\ session_state = NoSessions
    /\ actor = NoActor
    /\ employees_a = NoTable
    /\ employees_b = NoTable
    /\ audit_log = NoTable

NextAdvancedSQL ==
    \/ CTEsTab
    \/ WindowFunctionsTab
    \/ RecursiveQueriesTab
    \/ PivotingDataTab
    \/ AnalyticalFunctionsTab
    \/ PerformanceTuningTab
    \/ QuizSection
    \/ SelectAnswerAdvanced
    \/ SubmitAnswerAdvanced

SpecAdvancedSQL == InitAdvancedSQL /\ [][NextAdvancedSQL]_vars

-----------------------------------------------------------------------------
(***************************************************************************)
(* AGGREGATING DATA PAGE (3_Aggregating_Data.py), HAVING tab.  The tab has *)
(* no button: every run computes the grouped and filtered result from the  *)
(* values of its three widgets.  An aggregate is held as the fraction      *)
(* num / den, so that a mean is exact; a result table is held as the set   *)
(* of its rows (one row per group).                                        *)
(***************************************************************************)

\* data = pd.DataFrame({...})
AggregatingLiteral ==
    << [id |-> 1, name |-> <<"Alice">>,   age |-> 25, department |-> <<"HR">>,
        salary |-> 50000],
       [id |-> 2, name |-> <<"Bob">>,     age |-> 35, department |-> <<"Engineering">>,
        salary |-> 60000],
       [id |-> 3, name |-> <<"Charlie">>, age |-> 30, department |-> <<"Marketing">>,
        salary |-> 55000],
       [id |-> 4, name |-> <<"David">>,   age |-> 40, department |-> <<"Engineering">>,
        salary |-> 70000],
       [id |-> 5, name |-> <<"Eva">>,     age |-> 29, department |-> <<"HR">>,
        salary |-> 48000],
       [id |-> 6, name |-> <<"Frank">>,   age |-> 35, department |-> <<"Marketing">>,
        salary |-> 62000] >>

\* data.columns
AggregatingColumns == <<"id", "name", "age", "department", "salary">>

AggregationFunctions == <<"SUM", "AVG", "MAX", "MIN">>

\* The rows of the group with key k in df.groupby(column).
GroupRows(df, column, k) == {i \in DOMAIN df : df[i][column] = k}

\* .sum(), .mean(), .max(), .min() of the salary column over a group.
Aggregate(df, rows, aggregation_function) ==
    CASE aggregation_function = "SUM" ->
            [num |-> SumOver(df, rows, "salary"), den |-> 1]
      [] aggregation_function = "AVG" ->
            [num |-> SumOver(df, rows, "salary"), den |-> Cardinality(rows)]
      [] aggregation_function = "MAX" ->
            [num |-> df[CHOOSE i \in rows : \A j \in rows : df[j].salary <= df[i].salary].salary,
             den |-> 1]
      [] aggregation_function = "MIN" ->
            [num |-> df[CHOOSE i \in rows : \A j \in rows : df[j].salary >= df[i].salary].salary,
             den |-> 1]

\* aggregate > condition_value
GreaterThan(value, condition_value) == value.num > condition_value * value.den

\* df.groupby(column)['salary'].<function>().reset_index(name=...)
GroupedResult(df, column, aggregation_function) ==
    {[key   |-> df[i][column],
      value |-> Aggregate(df, GroupRows(df, column, df[i][column]), aggregation_function)]
     : i \in DOMAIN df}

FilteredThenGrouped(df, column, aggregation_function, condition_value) ==
    LET Kept(r) == r.salary > condition_value
    IN  GroupedResult(SelectSeq(df, Kept), column, aggregation_function)

\* grouped_result[grouped_result[<name>] > condition_value]
FilteredResult(df, column, aggregation_function, condition_value) ==
    {r \in GroupedResult(df, column, aggregation_function) :
        GreaterThan(r.value, condition_value)}

\* Values of the condition field: the value it holds at first, and every
\* aggregate of the table with the integers next to it.
ConditionDefault == 100000
ConditionValues ==
    {ConditionDefault} \cup
    UNION {UNION {{r.value.num \div r.value.den - 1, r.value.num \div r.value.den,
                   r.value.num \div r.value.den + 1} :
                  r \in GroupedResult(AggregatingLiteral, AggregatingColumns[c],
                                      AggregationFunctions[f])} :
           c \in DOMAIN AggregatingColumns, f \in DOMAIN AggregationFunctions}

\* A run of the page, seen in the HAVING tab.
RunHaving ==
    /\ page = "3_Aggregating_Data.py"
    /\ trigger' = "widget"
    /\ data' = AggregatingLiteral
    /\ displayed' = FilteredResult(AggregatingLiteral, fields'.group_by_column,
                                   fields'.aggregation_function, fields'.condition_value)
    /\ sql_command' = [op |-> "SELECT ... GROUP BY ... HAVING",
                       column |-> fields'.group_by_column,
                       function |-> fields'.aggregation_function,
                       value |-> fields'.condition_value]
    /\ UNCHANGED <<page, inputs, message, employees, products, transaction_products,
                   savepoint_products, before, quizVars, pc, departments, sales,
                   sessionVars, pageTables>>

\* group_by_column = st.selectbox("Choose a column to group by:", data.columns)
ChooseGroupByColumn ==
    /\ \E c \in Range(AggregatingColumns) \ {fields.group_by_column} :
          fields' = [fields EXCEPT !.group_by_column = c]
    /\ RunHaving

\* aggregation_function = st.radio(..., ["SUM", "AVG", "MAX", "MIN"])
ChooseAggregationFunction ==
    /\ \E f \in Range(AggregationFunctions) \ {fields.aggregation_function} :
          fields' = [fields EXCEPT !.aggregation_function = f]
    /\ RunHaving

\* condition_value = st.number_input(..., value=100000, step=1000)
EnterConditionValue ==
    /\ \E v \in ConditionValues \ {fields.condition_value} :
          fields' = [fields EXCEPT !.condition_value = v]
    /\ RunHaving

\* The first run of the page.
InitAggregating ==
    /\ page = "3_Aggregating_Data.py"
    /\ trigger = "load"
    /\ fields = [kind |-> "HAVING", group_by_column |-> AggregatingColumns[1],
                 aggregation_function |-> AggregationFunctions[1],
                 condition_value |-> ConditionDefault]
    /\ data = AggregatingLiteral
    /\ displayed = FilteredResult(AggregatingLiteral, fields.group_by_column,
                                  fields.aggregation_function, fields.condition_value)
    /\ sql_command = [op |-> "SELECT ... GROUP BY ... HAVING",
                      column |-> fields.group_by_column,
                      function |-> fields.aggregation_function,
                      value |-> fields.condition_value]
    /\ inputs = NoInputs
    /\ message = NoMessage
    /\ employees = NoTable
    /\ products = NoTable
    /\ transaction_products = NoTable
    /\ savepoint_products = NoTable
    /\ before = NoTable
    /\ quiz = "Aggregating Data"
    /\ quiz_question = WidgetDefault(quiz)
    /\ feedback = NoFeedback
    /\ pc = Done
    /\ departments = NoTable
    /\ sales = NoTable
    /\ session_state = NoSessions
    /\ actor = NoActor
    /\ employees_a = NoTable
    /\ employees_b = NoTable
    /\ audit_log = NoTable

NextAggregating ==
    \/ ChooseGroupByColumn
    \/ ChooseAggregationFunction
    \/ EnterConditionValue

SpecAggregating == InitAggregating /\ [][NextAggregating]_vars

-----------------------------------------------------------------------------
(***************************************************************************)
(* JOINS PAGE (2_Joins.py).  The script assigns the tables, runs the seven *)
(* tab blocks in order, each computing and displaying its join, and ends   *)
(* with the quiz.  A cell is a sequence: <<v>> holds the value v and <<>>  *)
(* is a missing value (None, NaN).  A table is the sequence of its rows.   *)
(* The joins are functions of the two tables, so the tables of a behaviour *)
(* are either the literals of the script or any pair of tables of at most  *)
(* MaxRows rows with keys in JoinKeys.  The salaries table is displayed    *)
(* and never joined.                                                       *)
(***************************************************************************)
MaxRows == 2

JoinKeys == {101, 102}

NaNCell == <<>>

\* employees = pd.DataFrame({...})
JoinsEmployees ==
    << [emp_id |-> <<1>>, name |-> <<"Alice">>,   dept_id |-> <<101>>, manager_id |-> NaNCell],
       [emp_id |-> <<2>>, name |-> <<"Bob">>,     dept_id |-> <<102>>, manager_id |-> <<1>>],
       [emp_id |-> <<3>>, name |-> <<"Charlie">>, dept_id |-> <<103>>, manager_id |-> <<1>>],
       [emp_id |-> <<4>>, name |-> <<"David">>,   dept_id |-> <<101>>, manager_id |-> <<2>>],
       [emp_id |-> <<5>>, name |-> <<"Eva">>,     dept_id |-> <<102>>, manager_id |-> <<3>>] >>

\* departments = pd.DataFrame({...})
JoinsDepartments ==
    << [dept_id |-> <<101>>, department_name |-> <<"HR">>],
       [dept_id |-> <<102>>, department_name |-> <<"Engineering">>],
       [dept_id |-> <<103>>, department_name |-> <<"Marketing">>],
       [dept_id |-> <<104>>, department_name |-> <<"Finance">>] >>

EmployeesColumns   == {"emp_id", "name", "dept_id", "manager_id"}
DepartmentsColumns == {"dept_id", "department_name"}

\* Tables of at most MaxRows rows: row i of an employees table is the
\* employee i of the literal moved to any department and managed by the
\* employee before it, row i of a departments table is the department i of
\* the literal under any key.
EmployeesTables ==
    UNION {{[i \in 1..n |-> [JoinsEmployees[i] EXCEPT !.dept_id = <<k[i]>>,
                                                        !.manager_id = IF i = 1 THEN NaNCell
                                                                       ELSE <<i - 1>>]]
            : k \in [1..n -> JoinKeys]} : n \in 0..MaxRows}

DepartmentsTables ==
    UNION {{[i \in 1..n |-> [JoinsDepartments[i] EXCEPT !.dept_id = <<k[i]>>]]
            : k \in [1..n -> JoinKeys]} : n \in 0..MaxRows}

RECURSIVE Flatten(_)
Flatten(ss) == IF ss = <<>> THEN <<>> ELSE Head(ss) \o Flatten(Tail(ss))

\* The positions of the rows of df whose cell in column `on` is v, in order.
\* (pd.merge matches a missing key with a missing key.)
RowsWithKey(df, on, v) ==
    LET Test(i) == df[i][on] = v
    IN  SelectSeq([i \in 1..Len(df) |-> i], Test)

\* v is before w in the order of the keys, a missing key last.
KeyLess(v, w) == v # NaNCell /\ (w = NaNCell \/ v[1] < w[1])

RECURSIVE SortKeys(_)
SortKeys(S) ==
    IF S = {} THEN <<>>
    ELSE LET first == CHOOSE v \in S : \A w \in S \ {v} : KeyLess(v, w)
         IN  <<first>> \o SortKeys(S \ {first})

\* Every pair of a position of a and a position of b, a's order first.
Product(a, b) == Flatten([x \in DOMAIN a |-> [y \in DOMAIN b |-> <<a[x], b[y]>>]])

OuterRowsOfKeyInLeft(a, b) ==
    IF b = <<>> THEN [x \in DOMAIN a |-> <<a[x], 0>>]
    ELSE Product(a, b)

\* how='outer', the rows of the result for one key, a and b being the
\* positions of the rows that have this key in A and in B: the row of either
\* table alone where the other has none, every pair otherwise.
OuterRowsOfKey(a, b) ==
    IF b = <<>> THEN [x \in DOMAIN a |-> <<a[x], 0>>]
    ELSE IF a = <<>> THEN [y \in DOMAIN b |-> <<0, b[y]>>]
    ELSE Product(a, b)

\* pd.merge(A, B, left_on=..., right_on=..., how=...): the pairs <<i, j>> of
\* positions of the rows that make up each row of the result, 0 standing for
\* no row.  inner and left keep the order of A, right keeps the order of B,
\* outer sorts by key.
MergePairs(A, B, left_on, right_on, how) ==
    LET InB(i) == RowsWithKey(B, right_on, A[i][left_on])
        InA(j) == RowsWithKey(A, left_on, B[j][right_on])
        keys == SortKeys({A[i][left_on] : i \in DOMAIN A} \cup {B[j][right_on] : j \in DOMAIN B})
        OfKey(v) == OuterRowsOfKey(RowsWithKey(A, left_on, v), RowsWithKey(B, right_on, v))
    IN  CASE how = "inner" -> Flatten([i \in DOMAIN A |-> Product(<<i>>, InB(i))])
          [] how = "left"  -> Flatten([i \in DOMAIN A |->
                                  IF InB(i) = <<>> THEN << <<i, 0>> >>
                                  ELSE Product(<<i>>, InB(i))])
          [] how = "right" -> Flatten([j \in DOMAIN B |->
                                  IF InA(j) = <<>> THEN << <<0, j>> >>
                                  ELSE Product(InA(j), <<j>>)])
          [] how = "outer" -> Flatten([n \in DOMAIN keys |-> OfKey(keys[n])])

\* pd.merge(employees, departments, on='dept_id', how=...): the key column
\* once, then the other columns of each table, missing where the pair has no
\* row of that table.
MergeOnDeptId(A, B, how) ==
    LET pairs == MergePairs(A, B, "dept_id", "dept_id", how)
        Row(p) ==
            [c \in EmployeesColumns \cup DepartmentsColumns |->
                IF c = "dept_id"
                THEN IF p[1] # 0 THEN A[p[1]][c] ELSE B[p[2]][c]
                ELSE IF c \in EmployeesColumns
                THEN IF p[1] # 0 THEN A[p[1]][c] ELSE NaNCell
                ELSE IF p[2] # 0 THEN B[p[2]][c] ELSE NaNCell]
    IN  [n \in DOMAIN pairs |-> Row(pairs[n])]

AssignOwnKey(df) == [i \in DOMAIN df |-> [key |-> df[i].dept_id]]

\* df.assign(key=1), seen through its key column.
AssignKey(df) == [i \in DOMAIN df |-> [key |-> <<1>>]]

\* The row of the cross join made of row a of employees and row b of
\* departments: dept_id is in both tables and gets the suffixes _x and _y.
CrossRow(a, b) ==
    [emp_id |-> a.emp_id, name |-> a.name, dept_id_x |-> a.dept_id,
     manager_id |-> a.manager_id, dept_id_y |-> b.dept_id,
     department_name |-> b.department_name]

\* employees.assign(key=1).merge(departments.assign(key=1), on='key').drop('key', axis=1)
CrossJoin(A, B) ==
    LET pairs == MergePairs(AssignKey(A), AssignKey(B), "key", "key", "inner")
    IN  [n \in DOMAIN pairs |-> CrossRow(A[pairs[n][1]], B[pairs[n][2]])]

SelfJoinSidesSwapped(A) ==
    LET pairs == MergePairs(A, A, "manager_id", "emp_id", "inner")
    IN  [n \in DOMAIN pairs |-> [Employee |-> A[pairs[n][2]].name,
                                 Manager  |-> A[pairs[n][1]].name]]

\* pd.merge(employees, employees, left_on='manager_id', right_on='emp_id',
\* suffixes=('_employee', '_manager'))[['name_employee', 'name_manager']],
\* the columns renamed Employee and Manager.
SelfJoin(A) ==
    LET pairs == MergePairs(A, A, "manager_id", "emp_id", "inner")
    IN  [n \in DOMAIN pairs |-> [Employee |-> A[pairs[n][1]].name,
                                 Manager  |-> A[pairs[n][2]].name]]

JoinsTabs == <<"INNER JOIN", "LEFT JOIN", "RIGHT JOIN", "FULL JOIN", "CROSS JOIN",
               "SELF JOIN", "NATURAL JOIN", "quiz">>

\* The block that follows block `tab` in the script.
NextJoinsBlock(tab) ==
    IF tab = "quiz" THEN Done
    ELSE JoinsTabs[1 + CHOOSE i \in DOMAIN JoinsTabs : JoinsTabs[i] = tab]

\* A tab block of the script: the result of its join is displayed.
JoinsBlock(tab, result) ==
    /\ pc = tab
    /\ sql_command' = [op |-> tab]
    /\ displayed' = result
    /\ pc' = NextJoinsBlock(pc)
    /\ UNCHANGED <<page, trigger, fields, inputs, message, employees, products,
                   transaction_products, savepoint_products, before, quizVars,
                   data, departments, sales, sessionVars, pageTables>>

InnerJoinTabKeepingLeft ==
    /\ page = "2_Joins.py"
    /\ JoinsBlock("INNER JOIN", MergeOnDeptId(employees, departments, "left"))

\* with tabs[0]: pd.merge(employees, departments, on='dept_id', how='inner')
InnerJoinTab ==
    /\ page = "2_Joins.py"
    /\ JoinsBlock("INNER JOIN", MergeOnDeptId(employees, departments, "inner"))

LeftJoinTabMatchedOnly ==
    /\ page = "2_Joins.py"
    /\ JoinsBlock("LEFT JOIN", MergeOnDeptId(employees, departments, "inner"))

\* with tabs[1]: pd.merge(employees, departments, on='dept_id', how='left')
LeftJoinTab ==
    /\ page = "2_Joins.py"
    /\ JoinsBlock("LEFT JOIN", MergeOnDeptId(employees, departments, "left"))

\* with tabs[2]: pd.merge(employees, departments, on='dept_id', how='right')
RightJoinTab ==
    /\ page = "2_Joins.py"
    /\ JoinsBlock("RIGHT JOIN", MergeOnDeptId(employees, departments, "right"))

\* with tabs[3]: pd.merge(employees, departments, on='dept_id', how='outer')
FullJoinTab ==
    /\ page = "2_Joins.py"
    /\ JoinsBlock("FULL JOIN", MergeOnDeptId(employees, departments, "outer"))

\* with tabs[4]
CrossJoinTab ==
    /\ page = "2_Joins.py"
    /\ JoinsBlock("CROSS JOIN", CrossJoin(employees, departments))

\* with tabs[5]
SelfJoinTab ==
    /\ page = "2_Joins.py"
    /\ JoinsBlock("SELF JOIN", SelfJoin(employees))

\* with tabs[6]: pd.merge(employees, departments, on='dept_id')
NaturalJoinTab ==
    /\ page = "2_Joins.py"
    /\ JoinsBlock("NATURAL JOIN", MergeOnDeptId(employees, departments, "inner"))

\* The quiz at the end of the script: the feedback is rendered in the run
\* that the Submit Answer button has triggered.
QuizSectionJoins ==
    /\ page = "2_Joins.py"
    /\ pc = "quiz"
    /\ feedback' = IF trigger = "Submit Answer" THEN Evaluate(quiz, quiz_question)
                   ELSE NoFeedback
    /\ pc' = NextJoinsBlock(pc)
    /\ UNCHANGED <<page, trigger, fields, inputs, message, employees, products,
                   transaction_products, savepoint_products, before, quiz, quiz_question,
                   panelVars, data, departments, sales, sessionVars, pageTables>>

\* The start of a run: the script assigns its tables again (the same tables
\* as in every run) and everything the last run rendered is cleared.
StartRunJoins(button) ==
    /\ page = "2_Joins.py"
    /\ pc = Done
    /\ pc' = JoinsTabs[1]
    /\ trigger' = button
    /\ sql_command' = NoCommand
    /\ displayed' = NoTable
    /\ feedback' = NoFeedback
    /\ UNCHANGED <<page, fields, inputs, message, employees, products,
                   transaction_products, savepoint_products, before, quiz,
                   data, departments, sales, sessionVars, pageTables>>

\* The user changes the selection of the quiz: a new run starts.
SelectAnswerJoins ==
    /\ \E selected \in WidgetValues(quiz) \ {quiz_question} : quiz_question' = selected
    /\ StartRunJoins("widget")

\* The user presses Submit Answer: a new run starts.
SubmitAnswerJoins ==
    /\ UNCHANGED quiz_question
    /\ StartRunJoins("Submit Answer")

\* The first run of the page has assigned the tables and reached the tabs.
InitJoins ==
    /\ page = "2_Joins.py"
    /\ trigger = "load"
    /\ pc = JoinsTabs[1]
    /\ \/ employees = JoinsEmployees /\ departments = JoinsDepartments
       \/ employees \in EmployeesTables /\ departments \in DepartmentsTables
    /\ sql_command = NoCommand
    /\ displayed = NoTable
    /\ fields = NoFields
    /\ inputs = NoInputs
    /\ message = NoMessage
    /\ products = NoTable
    /\ transaction_products = NoTable
    /\ savepoint_products = NoTable
    /\ before = NoTable
    /\ quiz = "Joins"
    /\ quiz_question = WidgetDefault(quiz)
    /\ feedback = NoFeedback
    /\ data = NoTable
    /\ sales = NoTable
    /\ session_state = NoSessions
    /\ actor = NoActor
    /\ employees_a = NoTable
    /\ employees_b = NoTable
    /\ audit_log = NoTable

NextJoins ==
    \/ InnerJoinTab
    \/ LeftJoinTab
    \/ RightJoinTab
    \/ FullJoinTab
    \/ CrossJoinTab
    \/ SelfJoinTab
    \/ NaturalJoinTab
    \/ QuizSectionJoins
    \/ SelectAnswerJoins
    \/ SubmitAnswerJoins

SpecJoins == InitJoins /\ [][NextJoins]_vars

-----------------------------------------------------------------------------
(***************************************************************************)
(* SET OPERATIONS PAGE (5_Set_Operations.py).  Each of the four tabs has a *)
(* multiselect of columns and no button: every run computes its result     *)
(* from the two tables projected on the selected columns.  The model looks *)
(* at one tab (the multiselects of the tabs are independent widgets) and   *)
(* holds a result as the bag of its rows, leaving out their order.  The    *)
(* operations are functions of the two tables, so the tables of a          *)
(* behaviour are either the literals of the script or any two tables of at *)
(* most MaxRows rows taken from SetRows.                                   *)
(***************************************************************************)

\* employees_a = pd.DataFrame({...})
EmployeesALiteral ==
    << [emp_id |-> 1, name |-> <<"Alice">>,   department |-> <<"HR">>,          salary |-> 50000],
       [emp_id |-> 2, name |-> <<"Bob">>,     department |-> <<"Engineering">>, salary |-> 60000],
       [emp_id |-> 3, name |-> <<"Charlie">>, department |-> <<"Marketing">>,   salary |-> 55000] >>

\* employees_b = pd.DataFrame({...})
EmployeesBLiteral ==
    << [emp_id |-> 3, name |-> <<"Charlie">>, department |-> <<"Marketing">>,   salary |-> 55000],
       [emp_id |-> 4, name |-> <<"David">>,   department |-> <<"Engineering">>, salary |-> 70000],
       [emp_id |-> 5, name |-> <<"Eva">>,     department |-> <<"HR">>,          salary |-> 48000] >>

\* employees_a.columns
SetColumns == {"emp_id", "name", "department", "salary"}

SetTabs == {"UNION", "UNION ALL", "INTERSECT", "EXCEPT"}

\* Rows of the bounded tables: two rows that differ in every column but the
\* department, and a third one.
SetRows == {EmployeesALiteral[1], EmployeesBLiteral[3], EmployeesALiteral[3]}

SetTables == UNION {[1..n -> SetRows] : n \in 0..MaxRows}

\* The rows of a frame with the number of times each occurs.
BagOf(df) == [r \in Range(df) |-> Cardinality({i \in DOMAIN df : df[i] = r})]

KeepDuplicates(rows) == rows

\* .drop_duplicates()
DropDuplicates(rows) == SetToBag(BagToSet(rows))

\* pd.concat([A[selected_columns], B[selected_columns]]).reset_index(drop=True)
UnionAll(A, B, selected_columns) ==
    BagOf(Project(A, selected_columns) \o Project(B, selected_columns))

\* pd.concat([...]).drop_duplicates().reset_index(drop=True)
Union(A, B, selected_columns) == DropDuplicates(UnionAll(A, B, selected_columns))

\* pd.merge(A[selected_columns], B[selected_columns], how="inner"): the merge
\* is on all the columns, one row per pair of equal rows.
Intersect(A, B, selected_columns) ==
    LET a == BagOf(Project(A, selected_columns))
        b == BagOf(Project(B, selected_columns))
    IN  [r \in (DOMAIN a) \cap (DOMAIN b) |-> a[r] * b[r]]

ExceptKeepingAll(A, B, selected_columns) == BagOf(Project(A, selected_columns))

\* A[selected_columns].merge(B[selected_columns], how="outer", indicator=True),
\* the rows with _merge == 'left_only'.
Except(A, B, selected_columns) ==
    LET a == BagOf(Project(A, selected_columns))
        b == BagOf(Project(B, selected_columns))
    IN  [r \in (DOMAIN a) \ (DOMAIN b) |-> a[r]]

\* What the tab computes for the selected columns.
SetResult(tab, A, B, selected_columns) ==
    CASE tab = "UNION"     -> Union(A, B, selected_columns)
      [] tab = "UNION ALL" -> UnionAll(A, B, selected_columns)
      [] tab = "INTERSECT" -> Intersect(A, B, selected_columns)
      [] tab = "EXCEPT"    -> Except(A, B, selected_columns)

\* if selected_columns: ... st.code(sql_command) ... st.dataframe(<result>)
SetCommand(flds) ==
    IF flds.selected_columns = {} THEN NoCommand
    ELSE [op |-> flds.kind, columns |-> flds.selected_columns]

SetDisplayed(flds, A, B) ==
    IF flds.selected_columns = {} THEN EmptyBag
    ELSE SetResult(flds.kind, A, B, flds.selected_columns)

\* A run of the page after the multiselect of the tab in view has changed by
\* one column.
ChooseColumns(tab) ==
    /\ page = "5_Set_Operations.py"
    /\ fields.kind = tab
    /\ \E c \in SetColumns :
          fields' = [fields EXCEPT !.selected_columns =
                        IF c \in @ THEN @ \ {c} ELSE @ \cup {c}]
    /\ trigger' = "widget"
    /\ sql_command' = SetCommand(fields')
    /\ displayed' = SetDisplayed(fields', employees_a, employees_b)
    /\ UNCHANGED <<page, inputs, message, employees, products, transaction_products,
                   savepoint_products, before, quizVars, scriptVars, sessionVars,
                   pageTables>>

\* st.multiselect("Choose columns to include in the UNION:", ...)
ChooseUnionColumns ==
    /\ fields.kind = "UNION"
    /\ ChooseColumns("UNION")

\* st.multiselect(..., key="union_all_columns")
ChooseUnionAllColumns ==
    /\ fields.kind = "UNION ALL"
    /\ ChooseColumns("UNION ALL")

\* st.multiselect(..., key="intersect_columns")
ChooseIntersectColumns ==
    /\ fields.kind = "INTERSECT"
    /\ ChooseColumns("INTERSECT")

\* st.multiselect(..., key="except_columns")
ChooseExceptColumns ==
    /\ fields.kind = "EXCEPT"
    /\ ChooseColumns("EXCEPT")

\* The first run of the page: every multiselect holds all the columns.
InitSetOperations ==
    /\ page = "5_Set_Operations.py"
    /\ trigger = "load"
    /\ \/ employees_a = EmployeesALiteral /\ employees_b = EmployeesBLiteral
       \/ employees_a \in SetTables /\ employees_b \in SetTables
    /\ \E tab \in SetTabs : fields = [kind |-> tab, selected_columns |-> SetColumns]
    /\ sql_command = SetCommand(fields)
    /\ displayed = SetDisplayed(fields, employees_a, employees_b)
    /\ inputs = NoInputs
    /\ message = NoMessage
    /\ employees = NoTable
    /\ products = NoTable
    /\ transaction_products = NoTable
    /\ savepoint_products = NoTable
    /\ before = NoTable
    /\ quiz = "Set Operations"
    /\ quiz_question = WidgetDefault(quiz)
    /\ feedback = NoFeedback
    /\ pc = Done
    /\ data = NoTable
    /\ departments = NoTable
    /\ sales = NoTable
    /\ session_state = NoSessions
    /\ actor = NoActor
    /\ audit_log = NoTable

NextSetOperations ==
    \/ ChooseUnionColumns
    \/ ChooseUnionAllColumns
    \/ ChooseIntersectColumns
    \/ ChooseExceptColumns

SpecSetOperations == InitSetOperations /\ [][NextSetOperations]_vars

-----------------------------------------------------------------------------
(***************************************************************************)
(* TRIGGERS PAGE (13_Triggers.py).  products and audit_log are assigned at *)
(* script level, so every run starts from the three sample products and an *)
(* empty log; a button's handler changes the tables of its own run.  The   *)
(* model looks at one of the two tabs that have inputs (their widgets are  *)
(* independent).                                                           *)
(***************************************************************************)

\* products = pd.DataFrame({...})
TriggersProductsLiteral ==
    << [product_id |-> 1, product_name |-> "Laptop", stock |-> 10, price |-> 1000],
       [product_id |-> 2, product_name |-> "Phone",  stock |-> 15, price |-> 500],
       [product_id |-> 3, product_name |-> "Tablet", stock |-> 8,  price |-> 300] >>

\* audit_log = pd.DataFrame(columns=['action', 'product_id', 'timestamp'])
AuditLogLiteral == <<>>

\* st.text_input: any text.  st.number_input(step=1, value=...): any int.
ProductNameInputs == {"", "Laptop", "Mouse"}
StockInputs == {-1, 0, 10}
PriceInputs == {-1, 0, 1000}

\* pd.Timestamp.now(): the clock reading of the run.
Timestamps == {"t1", "t2"}

TriggerTabs == {"BEFORE Trigger", "AFTER Trigger"}

\* new_stock = st.number_input(..., value=10), new_price = st.number_input(..., value=1000)
TriggerFieldDefaults(tab) ==
    [kind |-> tab, product_name |-> "", stock |-> 10, price |-> 1000]

\* new_row = pd.DataFrame({'product_id': [len(products) + 1], ...})
NewProduct(df, flds) ==
    [product_id |-> Len(df) + 1, product_name |-> flds.product_name,
     stock |-> flds.stock, price |-> flds.price]

LogRowBeforeInsert(df, now) ==
    [action |-> "INSERT", product_id |-> Len(df) - 1, timestamp |-> now]

\* log_row = pd.DataFrame({'action': ['INSERT'], 'product_id': [len(products)],
\* 'timestamp': [pd.Timestamp.now()]}), df being products after the insert.
LogRow(df, now) ==
    [action |-> "INSERT", product_id |-> Len(df), timestamp |-> now]

\* st.code(sql_command) of the tab in view.
TriggerCommand(tab) ==
    IF tab = "BEFORE Trigger" THEN [op |-> "CREATE TRIGGER BeforeInsertProduct"]
    ELSE [op |-> "CREATE TRIGGER AfterInsertProduct"]

\* What every run of the page leaves alone.
TriggersFrame ==
    /\ sql_command' = TriggerCommand(fields'.kind)
    /\ UNCHANGED <<page, employees, transaction_products, savepoint_products, before,
                   quizVars, scriptVars, sessionVars, employees_a, employees_b>>

\* A run no button has triggered: the tables are the literals.
TriggersRerun ==
    /\ trigger' = "widget"
    /\ inputs' = NoInputs
    /\ message' = NoMessage
    /\ products' = TriggersProductsLiteral
    /\ audit_log' = AuditLogLiteral
    /\ displayed' = NoTable
    /\ TriggersFrame

\* new_product_name = st.text_input(...)
EnterProductName ==
    /\ page = "13_Triggers.py"
    /\ \E v \in ProductNameInputs \ {fields.product_name} :
          fields' = [fields EXCEPT !.product_name = v]
    /\ TriggersRerun

\* new_stock = st.number_input("Enter Stock Quantity:", step=1, value=10)
EnterStock ==
    /\ page = "13_Triggers.py"
    /\ \E v \in StockInputs \ {fields.stock} : fields' = [fields EXCEPT !.stock = v]
    /\ TriggersRerun

\* new_price = st.number_input("Enter Price:", step=1, value=1000)
EnterPrice ==
    /\ page = "13_Triggers.py"
    /\ \E v \in PriceInputs \ {fields.price} : fields' = [fields EXCEPT !.price = v]
    /\ TriggersRerun

\* st.button("Insert Product with BEFORE Trigger")
InsertProductWithBeforeTrigger ==
    /\ page = "13_Triggers.py"
    /\ fields.kind = "BEFORE Trigger"
    /\ trigger' = "Insert Product with BEFORE Trigger"
    /\ inputs' = fields
    /\ IF fields.stock < 0
       THEN /\ message' = "BEFORE Trigger Activated: Stock cannot be negative!"
            /\ products' = TriggersProductsLiteral
       ELSE /\ message' = "Product Inserted Successfully!"
            /\ products' = Append(TriggersProductsLiteral,
                                  NewProduct(TriggersProductsLiteral, fields))
    /\ audit_log' = AuditLogLiteral
    /\ displayed' = products'
    /\ UNCHANGED fields
    /\ TriggersFrame

\* st.button("Insert Product with AFTER Trigger")
InsertProductWithAfterTrigger ==
    /\ page = "13_Triggers.py"
    /\ fields.kind = "AFTER Trigger"
    /\ trigger' = "Insert Product with AFTER Trigger"
    /\ inputs' = fields
    /\ message' = "Product Inserted and Log Updated!"
    /\ products' = Append(TriggersProductsLiteral,
                          NewProduct(TriggersProductsLiteral, fields))
    /\ \E now \in Timestamps :
          audit_log' = Append(AuditLogLiteral, LogRow(products', now))
    /\ displayed' = products'
    /\ UNCHANGED fields
    /\ TriggersFrame

\* The first run of the page.
InitTriggers ==
    /\ page = "13_Triggers.py"
    /\ trigger = "load"
    /\ \E tab \in TriggerTabs : fields = TriggerFieldDefaults(tab)
    /\ inputs = NoInputs
    /\ message = NoMessage
    /\ products = TriggersProductsLiteral
    /\ audit_log = AuditLogLiteral
    /\ sql_command = TriggerCommand(fields.kind)
    /\ displayed = NoTable
    /\ employees = NoTable
    /\ transaction_products = NoTable
    /\ savepoint_products = NoTable
    /\ before = NoTable
    /\ quiz = "Triggers"
    /\ quiz_question = WidgetDefault(quiz)
    /\ feedback = NoFeedback
    /\ pc = Done
    /\ data = NoTable
    /\ departments = NoTable
    /\ sales = NoTable
    /\ session_state = NoSessions
    /\ actor = NoActor
    /\ employees_a = NoTable
    /\ employees_b = NoTable

NextTriggers ==
    \/ EnterProductName
    \/ EnterStock
    \/ EnterPrice
    \/ InsertProductWithBeforeTrigger
    \/ InsertProductWithAfterTrigger

SpecTriggers == InitTriggers /\ [][NextTriggers]_vars

-----------------------------------------------------------------------------
(***************************************************************************)
(* BASIC SQL QUERIES PAGE, LIKE Operator tab.  The tab has no button:      *)
(* every run builds a regular expression around the text entered and keeps *)
(* the rows whose column value it matches.  Here a text is the sequence of *)
(* its characters.  The characters the user types are letters, the dot     *)
(* (which a regular expression reads as any character) and the underscore  *)
(* (which a LIKE pattern reads as any character).                          *)
(***************************************************************************)
MaxPatternLen == 2

LikeChars == {"A", "a", "l", ".", "_"}

\* data = pd.DataFrame({...}): id and the columns of dtype object, every
\* text spelled out in characters.
DataInLetters ==
    << [id |-> 1,
        name |-> <<"A", "l", "i", "c", "e">>,
        department |-> <<"H", "R">>,
        city |-> <<"N", "e", "w", " ", "Y", "o", "r", "k">>],
       [id |-> 2,
        name |-> <<"B", "o", "b">>,
        department |-> <<"E", "n", "g", "i", "n", "e", "e", "r", "i", "n", "g">>,
        city |-> <<"L", "o", "s", " ", "A", "n", "g", "e", "l", "e", "s">>],
       [id |-> 3,
        name |-> <<"C", "h", "a", "r", "l", "i", "e">>,
        department |-> <<"M", "a", "r", "k", "e", "t", "i", "n", "g">>,
        city |-> <<"C", "h", "i", "c", "a", "g", "o">>],
       [id |-> 4,
        name |-> <<"D", "a", "v", "i", "d">>,
        department |-> <<"E", "n", "g", "i", "n", "e", "e", "r", "i", "n", "g">>,
        city |-> <<"S", "a", "n", " ", "F", "r", "a", "n", "c", "i", "s", "c", "o">>],
       [id |-> 5,
        name |-> <<"E", "v", "a">>,
        department |-> <<"H", "R">>,
        city |-> <<"N", "e", "w", " ", "Y", "o", "r", "k">>] >>

\* data.select_dtypes(include='object').columns
ObjectColumns == <<"name", "department", "city">>

PatternTypes == <<"Contains", "Begins with", "Ends with", "Exact Match">>

LiteralCharacterMatches(p, c) == p = c

\* One character of the entered text, read as part of a regular expression,
\* matches the character c of a value.
RegexCharacterMatches(p, c) == p = "." \/ p = c

\* The entered text, read as a regular expression, matches the value where
\* its character k is.
RegexMatchesAt(user_input, value, k) ==
    /\ k >= 1
    /\ k + Len(user_input) - 1 <= Len(value)
    /\ \A i \in DOMAIN user_input : RegexCharacterMatches(user_input[i], value[k + i - 1])

\* Series.str.contains(pattern, regex=True) for the pattern of each type:
\* .*{user_input}.*, ^{user_input}.*, .*{user_input}$ and ^{user_input}$.
StrContains(pattern_type, user_input, value) ==
    CASE pattern_type = "Contains" ->
            \E k \in 1..Len(value) : RegexMatchesAt(user_input, value, k)
      [] pattern_type = "Begins with" -> RegexMatchesAt(user_input, value, 1)
      [] pattern_type = "Ends with" ->
            RegexMatchesAt(user_input, value, Len(value) - Len(user_input) + 1)
      [] pattern_type = "Exact Match" ->
            Len(value) = Len(user_input) /\ RegexMatchesAt(user_input, value, 1)

\* sql_syntax = f"SELECT * FROM table_name WHERE {like_column} LIKE '...';"
\* (= '...' for Exact Match)
SqlSyntax(like_column, pattern_type, user_input) ==
    CASE pattern_type = "Contains" ->
            [op |-> "LIKE", column |-> like_column, pattern |-> <<"%">> \o user_input \o <<"%">>]
      [] pattern_type = "Begins with" ->
            [op |-> "LIKE", column |-> like_column, pattern |-> user_input \o <<"%">>]
      [] pattern_type = "Ends with" ->
            [op |-> "LIKE", column |-> like_column, pattern |-> <<"%">> \o user_input]
      [] pattern_type = "Exact Match" ->
            [op |-> "=", column |-> like_column, pattern |-> user_input]

\* like_filtered_data: the rows that match, all rows if nothing is entered.
LikeFilteredData(df, like_column, pattern_type, user_input) ==
    LET Kept(r) == StrContains(pattern_type, user_input, r[like_column])
    IN  IF user_input # <<>> THEN SelectSeq(df, Kept) ELSE df

\* A run of the page, seen in the LIKE tab.
RunLike ==
    /\ page = "1_Basic_SQL_Queries.py"
    /\ fields.kind = "LIKE"
    /\ trigger' = "widget"
    /\ data' = DataInLetters
    /\ sql_command' = SqlSyntax(fields'.like_column, fields'.pattern_type, fields'.user_input)
    /\ displayed' = LikeFilteredData(DataInLetters, fields'.like_column,
                                     fields'.pattern_type, fields'.user_input)
    /\ UNCHANGED <<page, inputs, message, employees, products, transaction_products,
                   savepoint_products, before, quizVars, pc, departments, sales,
                   sessionVars, pageTables>>

\* like_column = st.selectbox("Choose a column to apply pattern matching:", ...)
ChooseLikeColumn ==
    /\ \E c \in Range(ObjectColumns) \ {fields.like_column} :
          fields' = [fields EXCEPT !.like_column = c]
    /\ RunLike

\* pattern_type = st.radio("Choose a pattern type:", [...])
ChoosePatternType ==
    /\ \E t \in Range(PatternTypes) \ {fields.pattern_type} :
          fields' = [fields EXCEPT !.pattern_type = t]
    /\ RunLike

\* user_input = st.text_input("Enter the pattern to match:"): the user types
\* one more character or deletes the last one.
EnterPattern ==
    /\ \E v \in {Append(fields.user_input, a) :
                   a \in IF Len(fields.user_input) < MaxPatternLen THEN LikeChars ELSE {}}
                \cup (IF fields.user_input = <<>> THEN {}
                      ELSE {SubSeq(fields.user_input, 1, Len(fields.user_input) - 1)}) :
          fields' = [fields EXCEPT !.user_input = v]
    /\ RunLike

\* The first run of the page, and the user looking at the LIKE tab.
InitLike ==
    /\ page = "1_Basic_SQL_Queries.py"
    /\ trigger = "load"
    /\ fields = [kind |-> "LIKE", like_column |-> ObjectColumns[1],
                 pattern_type |-> PatternTypes[1], user_input |-> <<>>]
    /\ data = DataInLetters
    /\ sql_command = SqlSyntax(fields.like_column, fields.pattern_type, fields.user_input)
    /\ displayed = LikeFilteredData(DataInLetters, fields.like_column,
                                    fields.pattern_type, fields.user_input)
    /\ inputs = NoInputs
    /\ message = NoMessage
    /\ employees = NoTable
    /\ products = NoTable
    /\ transaction_products = NoTable
    /\ savepoint_products = NoTable
    /\ before = NoTable
    /\ quiz = "Basic SQL Queries"
    /\ quiz_question = WidgetDefault(quiz)
    /\ feedback = NoFeedback
    /\ pc = Done
    /\ departments = NoTable
    /\ sales = NoTable
    /\ session_state = NoSessions
    /\ actor = NoActor
    /\ employees_a = NoTable
    /\ employees_b = NoTable
    /\ audit_log = NoTable

NextLike ==
    \/ ChooseLikeColumn
    \/ ChoosePatternType
    \/ EnterPattern

SpecLike == InitLike /\ [][NextLike]_vars

-----------------------------------------------------------------------------
(* Claims about the quizzes, checked under SpecQuiz.                        *)

\* C1: on every multi-select quiz, Submit Answer reports the answer as
\* correct if and only if the selection equals the page's correct set; a
\* strict subset and a strict superset are reported as incorrect.
C1_ExactSetEquality ==
    (Submitted /\ quiz \in MultiSelectQuizzes) =>
        /\ feedback.kind \in {"success", "error"}
        /\ feedback.kind = "success" <=> quiz_question = Correct(quiz)

\* A strict superset of the correct set has been submitted and was reported
\* as incorrect.
C1_Witness ==
    /\ Submitted
    /\ quiz \in MultiSelectQuizzes
    /\ Correct(quiz) \subseteq quiz_question
    /\ Correct(quiz) # quiz_question
    /\ feedback.kind = "error"

\* C2: on every multi-select quiz that lists items on a mismatch (all but
\* the one-sentence 2NF quiz), Constraints included, the items reported as
\* missing are exactly correct - selected, the items reported as extra are
\* exactly selected - correct, and no selected item is listed as missing.
C2_MissingAndExtraExact ==
    (/\ Submitted
     /\ quiz \in MultiSelectQuizzes \ {"Normalization (2NF)"}
     /\ quiz_question # Correct(quiz)) =>
        /\ feedback.missing = Correct(quiz) \ quiz_question
        /\ feedback.extra = quiz_question \ Correct(quiz)
        /\ feedback.missing \cap quiz_question = {}

C10_OnlySubmitChangesState ==
    [][QuizState' # QuizState =>
          (trigger' = "Submit Answer" /\ QuizState' = "result shown")]_vars

\* C10 as amended: after a run triggered by Submit Answer the result is
\* shown and is the one of the selection current in that run alone (correct
\* iff it equals the correct set, extra items among the current selection,
\* missing items among the correct set); after any other run the widget is
\* awaiting submission again.
C10_ResultFromCurrentSelection ==
    /\ Submitted =>
          /\ QuizState = "result shown"
          /\ feedback.kind = "success" <=> quiz_question = Correct(quiz)
          /\ feedback.extra \subseteq quiz_question \ Correct(quiz)
          /\ feedback.missing \subseteq Correct(quiz)
    /\ ~Submitted => QuizState = "awaiting submission"

\* A submission made after the selection was changed to the correct set.
C10_Witness ==
    /\ Submitted
    /\ quiz \in MultiSelectQuizzes
    /\ quiz_question = Correct(quiz)
    /\ feedback.kind = "success"

-----------------------------------------------------------------------------
(* Claims about the Transactions page, checked under SpecTransactions.      *)

Stocks(df) == [i \in DOMAIN df |-> df[i].stock]

C5_CommitIsPermanent ==
    [][(trigger = "COMMIT Transaction" /\ trigger' = "ROLLBACK Transaction") =>
          /\ transaction_products' = transaction_products
          /\ products'[1].stock = products[1].stock]_vars

\* C6: ROLLBACK to Savepoint returns the SAVEPOINT table to the state it had
\* when the savepoint was reported created (the table shown under "Savepoint
\* Created!"): pressed right after the savepoint was created, it leaves that
\* table as it is, keeping the deduction made before the savepoint.
C6_RollbackToSavepointKeepsEarlierChanges ==
    [][(/\ trigger = "Start Transaction with SAVEPOINT"
        /\ message = "Savepoint Created!"
        /\ trigger' = "ROLLBACK to Savepoint") =>
          savepoint_products' = savepoint_products]_vars

-----------------------------------------------------------------------------
(* Claims about the Constraints and Data Modification pages, checked under  *)
(* SpecEmployees.                                                           *)

\* The last run was triggered by the button `key`.
ButtonRun(key) == trigger = key

NonBlank(text) == \E i \in DOMAIN text : text[i] # Space

\* C7: on the PRIMARY KEY tab, Add Row with an employee id that is already
\* in the employees table is rejected with the duplicate-key reason and the
\* table is unchanged: same rows and same row count before and after.
C7_DuplicateKeyRejected ==
    (/\ ButtonRun("primary_key")
     /\ \E i \in DOMAIN before.employees :
           before.employees[i].emp_id = inputs.emp_id) =>
        /\ message = "Duplicate Employee ID! The PRIMARY KEY constraint is violated."
        /\ employees = before.employees
        /\ Len(employees) = Len(before.employees)

\* Add Row with emp_id = 2 has been rejected; the table has its 3 rows.
C7_Witness ==
    /\ ButtonRun("primary_key")
    /\ inputs.emp_id = 2
    /\ message = "Duplicate Employee ID! The PRIMARY KEY constraint is violated."
    /\ Len(employees) = 3

C8_Violating(key) ==
    CASE key = "foreign_key" ->
            /\ NonBlank(inputs.department)
            /\ \A i \in DOMAIN JoinsDepartments :
                  JoinsDepartments[i].department_name # inputs.department
      [] key = "unique_key" ->
            \E i \in DOMAIN before.employees : before.employees[i].name = inputs.name
      [] key = "check_key" -> inputs.salary <= 30000
      [] key = "notnull_key" -> ~NonBlank(inputs.name)

C8_Rejection(key) ==
    CASE key = "foreign_key" ->
            "Department does not exist in Departments table. FOREIGN KEY constraint violated."
      [] key = "unique_key" -> "Employee name already exists. UNIQUE constraint violated."
      [] key = "check_key" -> "Salary does not meet the CHECK constraint (salary > 30000)."
      [] key = "notnull_key" -> "Name cannot be NULL or empty. NOT NULL constraint violated."

C8_Accepted(key) ==
    CASE key = "foreign_key" -> "Row added successfully! FOREIGN KEY constraint maintained."
      [] key = "unique_key" -> "Row added successfully! UNIQUE constraint maintained."
      [] key = "check_key" -> "Row added successfully! CHECK constraint maintained."
      [] key = "notnull_key" -> "Row added successfully! NOT NULL constraint maintained."

\* The candidate row; a blank department is stored as None on the FOREIGN KEY tab.
C8_Candidate(key) ==
    [emp_id |-> inputs.emp_id,
     name |-> inputs.name,
     department |-> IF key = "foreign_key" /\ ~NonBlank(inputs.department)
                    THEN None ELSE inputs.department,
     salary |-> inputs.salary]

C9_ChangeSeenByLaterInteractions ==
    [][trigger' = "widget" => employees' = employees]_vars

-----------------------------------------------------------------------------
(* Claims about several sessions of the Transactions page, checked under   *)
(* SpecSessions.                                                            *)

\* The Laptop stock a session finds in its two demo tables.
ObservedStock(s) ==
    [transaction_products |-> St(s).transaction_products[1].stock,
     savepoint_products   |-> St(s).savepoint_products[1].stock]

\* C11: the COMMIT/ROLLBACK table and the SAVEPOINT table are private to a
\* session: a run of one session never changes the stock the other session
\* observes, and the first run of a new session (the page opened or
\* reloaded) leaves both of its tables equal to the literal, Laptop stock 10.
C11_SessionTablesPrivate ==
    [][ /\ \A t \in Sessions : t # actor' => ObservedStock(t)' = ObservedStock(t)
        /\ \A s \in Sessions : (actor' = s /\ trigger' = "load") =>
              /\ St(s)' = [transaction_products |-> ProductsLiteral,
                           savepoint_products   |-> ProductsLiteral]
              /\ ObservedStock(s)' = [transaction_products |-> 10,
                                      savepoint_products   |-> 10] ]_vars

\* Session A has deducted in both panels, session B has deducted, then
\* reloaded the page: B is back at the literal while A keeps its stock.
C11_Witness ==
    /\ actor = "B"
    /\ trigger = "load"
    /\ ObservedStock("A") = [transaction_products |-> 7, savepoint_products |-> 4]
    /\ ObservedStock("B") = [transaction_products |-> 10, savepoint_products |-> 10]

\* C12: on the DEFAULT tab the default salary 40000 is inserted only when the
\* Salary field was left as the page first showed it; a salary the user has
\* entered, 0 included, is the salary inserted.
C12_DefaultOnlyWhenLeftUnset ==
    ButtonRun("default_key") =>
        LET inserted == employees[Len(employees)].salary
        IN  IF inputs.entered THEN inserted = inputs.salary
            ELSE inserted = DefaultSalary

-----------------------------------------------------------------------------
(* Claims about the Basic SQL Queries page, checked under SpecBasicSQL.    *)

\* The text, without the whitespace around it, is a decimal numeral.
DenotesNumber(text) ==
    LET t == Strip(text)
    IN  /\ \A i \in DOMAIN t : t[i] \in Digits \cup {"."}
        /\ Cardinality({i \in DOMAIN t : t[i] = "."}) <= 1
        /\ \E i \in DOMAIN t : t[i] \in Digits

\* C13: on the WHERE tab, when the chosen column is numeric and the entered
\* text is not empty and does not denote a number, the tab shows the input
\* error, the whole unfiltered table, and no SQL command built from the text.
C13_NonNumberRejectedOnWhereTab ==
    ( /\ page = "1_Basic_SQL_Queries.py"
      /\ fields.kind = "WHERE"
      /\ IsNumericDtype(fields.column)
      /\ fields.value # <<>>
      /\ ~DenotesNumber(fields.value) ) =>
        /\ message = "Invalid input for a numeric column. Please enter a number."
        /\ displayed = data
        /\ sql_command.op = "-- Invalid input. Could not generate SQL command."

\* The values entered on the IN tab: the texts between the commas, without
\* the whitespace around them.
EnteredValues(text) == {Strip(Split(text)[i]) : i \in DOMAIN Split(text)}

\* C14: on the IN tab with a numeric column, an entered value that does not
\* denote a number is answered with an input error and never with a filtered
\* table, and an entered numeral selects the rows that hold its value.
C14_InTabChecksNumericValues ==
    ( /\ page = "1_Basic_SQL_Queries.py"
      /\ fields.kind = "IN"
      /\ IsNumericDtype(fields.column)
      /\ fields.value # <<>> ) =>
        /\ (\E v \in EnteredValues(fields.value) : ~DenotesNumber(v)) =>
               message # NoMessage
        /\ \A v \in EnteredValues(fields.value) : DenotesNumber(v) =>
               \A i \in DOMAIN data :
                   EqualsFloat(data[i][fields.column], ParseFloat(v)) =>
                       \E j \in DOMAIN displayed : displayed[j] = data[i]

\* The table a displayed Data Modification command produces from the table df.
Applied(command, df) ==
    CASE command.op = "INSERT INTO" ->
            Concat(df, NewRow(command.emp_id, command.name, command.department,
                              command.salary))
      [] command.op = "UPDATE" ->
            [i \in DOMAIN df |-> IF df[i].emp_id = command.emp_id
                                 THEN [df[i] EXCEPT !.salary = command.salary]
                                 ELSE df[i]]
      [] command.op = "DELETE" -> DropWhere(df, "emp_id", command.emp_id)
      [] command.op = "MERGE" ->
            IF InColumn(command.emp_id, df, "emp_id")
            THEN [i \in DOMAIN df |-> IF df[i].emp_id = command.emp_id
                                      THEN NewRow(command.emp_id, command.name,
                                                  command.department, command.salary)
                                      ELSE df[i]]
            ELSE Concat(df, NewRow(command.emp_id, command.name, command.department,
                                   command.salary))
      [] OTHER -> df

\* The rows a displayed WHERE-tab command selects from the table df.
Selected(command, df) ==
    IF command.op = "SELECT * FROM table_name WHERE"
    THEN LET Matches(r) == IF command.quoted THEN r[command.column] = command.value
                           ELSE EqualsFloat(r[command.column], command.value)
         IN  SelectSeq(df, Matches)
    ELSE df

\* C15: in every render of the WHERE tab and of the INSERT, UPDATE, DELETE
\* and MERGE tabs, the table displayed is the result of the command displayed
\* with it: no command is shown for an operation that was not applied to the
\* table shown.
C15_CommandMatchesTable ==
    /\ page = "6_Data_Modification.py" =>
           displayed = Applied(sql_command, before.employees)
    /\ (page = "1_Basic_SQL_Queries.py" /\ fields.kind = "WHERE") =>
           displayed = Selected(sql_command, data)

-----------------------------------------------------------------------------
(* Claims about the Advanced SQL page, checked under SpecAdvancedSQL.      *)

\* C16: the column set of a sample table is that of its literal in every
\* state: no panel, the panels that only compute a table for display
\* included, adds, removes or renames a column of the sample table.
C16_SampleTableColumnsFixed ==
    /\ sales # NoTable =>
           \A i \in DOMAIN sales : DOMAIN sales[i] = ColumnsOf(SalesLiteral)
    /\ employees # NoTable =>
           \A i \in DOMAIN employees : DOMAIN employees[i] = ColumnsOf(JoinsEmployees)
    /\ products # NoTable =>
           \A i \in DOMAIN products : DOMAIN products[i] = ColumnsOf(ProductsLiteral)

-----------------------------------------------------------------------------
(* Claims about the panels of the Transactions page, checked under         *)
(* SpecTransactions.                                                        *)

\* C17: the panels of the Transactions page do not depend on each other's
\* state: the three buttons of the COMMIT and ROLLBACK tab leave the
\* SAVEPOINT table as it was, the two buttons of the SAVEPOINT tab leave the
\* COMMIT/ROLLBACK table as it was, and Perform Transaction and the quiz's
\* Submit Answer leave both as they were.
C17_PanelsIndependent ==
    [][ /\ trigger' \in {"Start Transaction", "COMMIT Transaction", "ROLLBACK Transaction"}
            => savepoint_products' = savepoint_products
        /\ trigger' \in {"Start Transaction with SAVEPOINT", "ROLLBACK to Savepoint"}
            => transaction_products' = transaction_products
        /\ trigger' \in {"Perform Transaction", "Submit Answer"}
            => /\ savepoint_products' = savepoint_products
               /\ transaction_products' = transaction_products ]_vars

\* The SAVEPOINT table holds a deduction of its own (stock 4) and COMMIT
\* Transaction has just committed another one (stock 7): the SAVEPOINT table
\* is as the run found it.
C17_Witness ==
    /\ trigger = "COMMIT Transaction"
    /\ products[1].stock = 7
    /\ transaction_products[1].stock = 7
    /\ before.savepoint_products # NoTable
    /\ before.savepoint_products[1].stock = 4
    /\ savepoint_products[1].stock = 4

-----------------------------------------------------------------------------
(* Claims about the Aggregating Data page, checked under SpecAggregating.  *)

\* The table of the worked example: four rows of department and salary.
HavingExample ==
    << [department |-> <<"HR">>,          salary |-> 50000],
       [department |-> <<"Engineering">>, salary |-> 60000],
       [department |-> <<"Engineering">>, salary |-> 70000],
       [department |-> <<"Marketing">>,   salary |-> 55000] >>

\* The salaries of the rows of the whole table whose group key is k, one
\* element per row.
SalariesOf(k) ==
    LET InGroup(r) == r[fields.group_by_column] = k
        rows == SelectSeq(data, InGroup)
    IN  [i \in DOMAIN rows |-> rows[i].salary]

RECURSIVE Total(_)
Total(seq) == IF seq = <<>> THEN 0 ELSE Head(seq) + Total(Tail(seq))

\* The aggregate of the sequence of salaries s is strictly greater than c.
AggregateExceeds(s, c) ==
    CASE fields.aggregation_function = "SUM" -> Total(s) > c
      [] fields.aggregation_function = "AVG" -> Total(s) > c * Len(s)
      [] fields.aggregation_function = "MAX" -> \E i \in DOMAIN s : s[i] > c
      [] fields.aggregation_function = "MIN" -> \A i \in DOMAIN s : s[i] > c

\* The aggregate shown for the group is the aggregate of the salaries s.
AggregateShown(value, s) ==
    CASE fields.aggregation_function = "SUM" -> value = [num |-> Total(s), den |-> 1]
      [] fields.aggregation_function = "AVG" -> value = [num |-> Total(s), den |-> Len(s)]
      [] fields.aggregation_function = "MAX" ->
            /\ value.den = 1
            /\ \E i \in DOMAIN s : s[i] = value.num
            /\ \A i \in DOMAIN s : s[i] <= value.num
      [] fields.aggregation_function = "MIN" ->
            /\ value.den = 1
            /\ \E i \in DOMAIN s : s[i] = value.num
            /\ \A i \in DOMAIN s : s[i] >= value.num

\* C18: on the HAVING tab the result is exactly the groups of the whole table
\* whose aggregate of salary is strictly greater than the threshold: the
\* threshold is compared with the aggregate of a group, never with single
\* rows before grouping, and a group whose aggregate equals the threshold is
\* left out; the worked example yields Engineering: 130000 alone.
C18_HavingFiltersGroupsAfterAggregation ==
    /\ \A i \in DOMAIN data :
          LET k == data[i][fields.group_by_column]
          IN  AggregateExceeds(SalariesOf(k), fields.condition_value)
                  <=> \E r \in displayed : r.key = k
    /\ \A r \in displayed :
          /\ \E i \in DOMAIN data : data[i][fields.group_by_column] = r.key
          /\ AggregateShown(r.value, SalariesOf(r.key))
    /\ \A r1, r2 \in displayed : r1.key = r2.key => r1 = r2
    /\ FilteredResult(HavingExample, "department", "SUM", 100000)
           = {[key |-> <<"Engineering">>, value |-> [num |-> 130000, den |-> 1]]}

\* SUM by department with threshold 117000, the sum of Marketing: Marketing
\* (equal to the threshold) and HR (98000) are left out, Engineering, no row
\* of which exceeds the threshold, is shown with 130000.
C18_Witness ==
    /\ fields.group_by_column = "department"
    /\ fields.aggregation_function = "SUM"
    /\ fields.condition_value = 117000
    /\ displayed = {[key |-> <<"Engineering">>, value |-> [num |-> 130000, den |-> 1]]}

-----------------------------------------------------------------------------
(* Claims about the Joins page, checked under SpecJoins.                   *)

\* C19: the cross join of employees and departments has exactly
\* |employees| x |departments| rows, one per pair of a row of employees and
\* a row of departments, whatever the keys of the two tables are; 20 rows
\* for the tables of the page.
C19_CrossJoinOneRowPerPair ==
    sql_command.op = "CROSS JOIN" =>
        /\ Len(displayed) = Len(employees) * Len(departments)
        /\ \A i \in DOMAIN employees, j \in DOMAIN departments :
              Cardinality({n \in DOMAIN displayed :
                              displayed[n] = CrossRow(employees[i], departments[j])})
                 = Cardinality({p \in (DOMAIN employees) \X (DOMAIN departments) :
                                   CrossRow(employees[p[1]], departments[p[2]])
                                      = CrossRow(employees[i], departments[j])})
        /\ (employees = JoinsEmployees /\ departments = JoinsDepartments)
               => Len(displayed) = 20

\* The cross join of the tables of the page is displayed: 20 rows.
C19_Witness ==
    /\ sql_command.op = "CROSS JOIN"
    /\ employees = JoinsEmployees
    /\ departments = JoinsDepartments
    /\ Len(displayed) = 20

\* The pairs of a row of employees and a row of departments with the same key.
MatchedPairs ==
    {p \in (DOMAIN employees) \X (DOMAIN departments) :
        employees[p[1]].dept_id = departments[p[2]].dept_id}

UnmatchedEmployees == {i \in DOMAIN employees : \A p \in MatchedPairs : p[1] # i}

UnmatchedDepartments == {j \in DOMAIN departments : \A p \in MatchedPairs : p[2] # j}

KeysDisjoint == MatchedPairs = {}

\* No key occurs twice in the table.
KeysUnique(df) == \A i, j \in DOMAIN df : df[i].dept_id = df[j].dept_id => i = j

Max(a, b) == IF a >= b THEN a ELSE b

\* C20 as stated: the full join has at least max(|A|, |B|) rows when the key
\* sets are disjoint, and in general |A| + |B| minus the number of matched
\* pairs.
C20_CountIsSizesMinusMatchedPairs ==
    sql_command.op = "FULL JOIN" =>
        /\ KeysDisjoint => Len(displayed) >= Max(Len(employees), Len(departments))
        /\ Len(displayed) = Len(employees) + Len(departments) - Cardinality(MatchedPairs)

\* C20, amended: the full join has one row per matched pair, one per row of
\* employees without a match and one per row of departments without a match;
\* that is at least max(|A|, |B|) rows, |A| + |B| rows when the key sets are
\* disjoint, and |A| + |B| minus the number of matched pairs when no key
\* occurs twice within either table; 6 rows for the tables of the page.
C20_FullJoinRowCount ==
    sql_command.op = "FULL JOIN" =>
        /\ Len(displayed) = Cardinality(MatchedPairs) + Cardinality(UnmatchedEmployees)
                                + Cardinality(UnmatchedDepartments)
        /\ Len(displayed) >= Max(Len(employees), Len(departments))
        /\ KeysDisjoint => Len(displayed) = Len(employees) + Len(departments)
        /\ (KeysUnique(employees) /\ KeysUnique(departments))
               => Len(displayed) = Len(employees) + Len(departments)
                                      - Cardinality(MatchedPairs)
        /\ (employees = JoinsEmployees /\ departments = JoinsDepartments)
               => Len(displayed) = 6

\* The full join of the tables of the page is displayed: 5 matched pairs and
\* department 104, which no employee has, with missing employee columns.
C20_Witness ==
    /\ sql_command.op = "FULL JOIN"
    /\ employees = JoinsEmployees
    /\ departments = JoinsDepartments
    /\ Cardinality(MatchedPairs) = 5
    /\ Len(displayed) = 6
    /\ displayed[6] = [emp_id |-> NaNCell, name |-> NaNCell, dept_id |-> <<104>>,
                       manager_id |-> NaNCell, department_name |-> <<"Finance">>]

\* The columns of a row of a join that come from employees, and those that
\* come from departments.
EmployeeSide(r) == [c \in EmployeesColumns |-> r[c]]

DepartmentSide(r) == [c \in DepartmentsColumns |-> r[c]]

HasMatchInDepartments(i) == \E p \in MatchedPairs : p[1] = i

HasMatchInEmployees(j) == \E p \in MatchedPairs : p[2] = j

\* C21: every row of the left join carries a row of employees in its employees
\* columns, every row of employees appears at least once, and a row of
\* employees without a match appears exactly once, with the missing value in
\* the column that only departments has; the right join satisfies the same
\* with employees and departments exchanged.
C21_OuterSidePreserved ==
    /\ sql_command.op = "LEFT JOIN" =>
          /\ \A n \in DOMAIN displayed :
                \E i \in DOMAIN employees : EmployeeSide(displayed[n]) = employees[i]
          /\ \A i \in DOMAIN employees :
                LET rows == {n \in DOMAIN displayed : EmployeeSide(displayed[n]) = employees[i]}
                IN  /\ rows # {}
                    /\ ~HasMatchInDepartments(i) =>
                          /\ Cardinality(rows) = 1
                          /\ \A n \in rows : displayed[n].department_name = NaNCell
    /\ sql_command.op = "RIGHT JOIN" =>
          /\ \A n \in DOMAIN displayed :
                \E j \in DOMAIN departments : DepartmentSide(displayed[n]) = departments[j]
          /\ \A j \in DOMAIN departments :
                LET rows == {n \in DOMAIN displayed : DepartmentSide(displayed[n]) = departments[j]}
                IN  /\ rows # {}
                    /\ ~HasMatchInEmployees(j) =>
                          /\ Cardinality(rows) = 1
                          /\ \A n \in rows :
                                \A c \in EmployeesColumns \ DepartmentsColumns :
                                   displayed[n][c] = NaNCell

\* A left join is displayed in which one employee has a department and
\* another has none.
C21_Witness ==
    /\ sql_command.op = "LEFT JOIN"
    /\ \E n, m \in DOMAIN displayed :
          /\ displayed[n].department_name = NaNCell
          /\ displayed[m].department_name # NaNCell

\* C22 as stated: the inner join keeps matched rows only and has at most as
\* many rows as the smaller of the number of rows of employees with a match
\* and the number of rows of departments with a match.
C22_CountAtMostMinOfMatchingRows ==
    sql_command.op = "INNER JOIN" =>
        /\ \A n \in DOMAIN displayed :
              \E p \in MatchedPairs :
                 /\ EmployeeSide(displayed[n]) = employees[p[1]]
                 /\ DepartmentSide(displayed[n]) = departments[p[2]]
        /\ Len(displayed) <= Cardinality({i \in DOMAIN employees : HasMatchInDepartments(i)})
        /\ Len(displayed) <= Cardinality({j \in DOMAIN departments : HasMatchInEmployees(j)})

\* C22, amended: the inner join has exactly one row per matched pair, made of
\* the two rows of the pair; so its row count is at most the product of the
\* numbers of rows with a match on either side, at least the larger of the
\* two, and at most the smaller of the two when no key occurs twice within
\* either table; 5 rows for the tables of the page.
C22_InnerJoinOneRowPerMatchedPair ==
    sql_command.op = "INNER JOIN" =>
        LET matchingA == Cardinality({i \in DOMAIN employees : HasMatchInDepartments(i)})
            matchingB == Cardinality({j \in DOMAIN departments : HasMatchInEmployees(j)})
        IN  /\ \A n \in DOMAIN displayed :
                  \E p \in MatchedPairs :
                     /\ EmployeeSide(displayed[n]) = employees[p[1]]
                     /\ DepartmentSide(displayed[n]) = departments[p[2]]
            /\ \A p \in MatchedPairs :
                  Cardinality({n \in DOMAIN displayed :
                                  /\ EmployeeSide(displayed[n]) = employees[p[1]]
                                  /\ DepartmentSide(displayed[n]) = departments[p[2]]}) = 1
            /\ Len(displayed) = Cardinality(MatchedPairs)
            /\ Len(displayed) <= matchingA * matchingB
            /\ Len(displayed) >= Max(matchingA, matchingB)
            /\ (KeysUnique(employees) /\ KeysUnique(departments))
                  => (Len(displayed) <= matchingA /\ Len(displayed) <= matchingB)
            /\ (employees = JoinsEmployees /\ departments = JoinsDepartments)
                  => Len(displayed) = 5

\* The inner join of the tables of the page is displayed: 5 rows, while only
\* 3 departments have an employee.
C22_Witness ==
    /\ sql_command.op = "INNER JOIN"
    /\ employees = JoinsEmployees
    /\ departments = JoinsDepartments
    /\ Cardinality({j \in DOMAIN departments : HasMatchInEmployees(j)}) = 3
    /\ Len(displayed) = 5

\* The employees that are the manager of employee i.
ManagersOf(i) == {j \in DOMAIN employees : employees[j].emp_id = employees[i].manager_id}

\* C23: the self join has exactly one row for every employee whose manager_id
\* is the emp_id of an employee, holding the name of the employee and the name
\* of the manager under the two column names Employee and Manager, and no
\* row for an employee whose manager_id is missing.
C23_SelfJoinPairsEmployeeWithManager ==
    sql_command.op = "SELF JOIN" =>
        /\ \A i \in DOMAIN employees : \A j \in ManagersOf(i) :
              Cardinality({n \in DOMAIN displayed :
                              displayed[n] = [Employee |-> employees[i].name,
                                              Manager  |-> employees[j].name]}) = 1
        /\ \A i \in DOMAIN employees :
              Cardinality({n \in DOMAIN displayed : displayed[n].Employee = employees[i].name})
                 = Cardinality(ManagersOf(i))
        /\ \A i \in DOMAIN employees :
              employees[i].manager_id = NaNCell
                 => \A n \in DOMAIN displayed : displayed[n].Employee # employees[i].name
        /\ \A n \in DOMAIN displayed : DOMAIN displayed[n] = {"Employee", "Manager"}
        /\ Len(displayed) = Cardinality({i \in DOMAIN employees : ManagersOf(i) # {}})

\* The self join of the employees of the page is displayed: Bob and Charlie
\* under Alice, David under Bob, Eva under Charlie, and no row for Alice.
C23_Witness ==
    /\ sql_command.op = "SELF JOIN"
    /\ employees = JoinsEmployees
    /\ displayed = << [Employee |-> <<"Bob">>,     Manager |-> <<"Alice">>],
                      [Employee |-> <<"Charlie">>, Manager |-> <<"Alice">>],
                      [Employee |-> <<"David">>,   Manager |-> <<"Bob">>],
                      [Employee |-> <<"Eva">>,     Manager |-> <<"Charlie">>] >>

-----------------------------------------------------------------------------
(* Claims about the Set Operations page, checked under SpecSetOperations.  *)

\* The rows of a table on the selected columns, as a set.
Projected(df) == {[c \in fields.selected_columns |-> df[i][c]] : i \in DOMAIN df}

\* How many rows of the table are equal to r on the selected columns.
Occurrences(df, r) ==
    Cardinality({i \in DOMAIN df : [c \in fields.selected_columns |-> df[i][c]] = r})

\* C24: for every non-empty selection of columns, UNION ALL has exactly
\* |A| + |B| rows (every projected row as often as it occurs in A and in B),
\* and UNION has every projected row of A and of B exactly once, hence no two
\* rows equal on all selected columns and at most |A| + |B| rows.
C24_UnionAllKeepsUnionDeduplicates ==
    fields.selected_columns # {} =>
        /\ fields.kind = "UNION ALL" =>
              /\ BagCardinality(displayed) = Len(employees_a) + Len(employees_b)
              /\ BagToSet(displayed) = Projected(employees_a) \cup Projected(employees_b)
              /\ \A r \in BagToSet(displayed) :
                    displayed[r] = Occurrences(employees_a, r) + Occurrences(employees_b, r)
        /\ fields.kind = "UNION" =>
              /\ BagToSet(displayed) = Projected(employees_a) \cup Projected(employees_b)
              /\ \A r \in BagToSet(displayed) : displayed[r] = 1
              /\ BagCardinality(displayed) <= Len(employees_a) + Len(employees_b)

\* UNION of the tables of the page on the department column alone: the six
\* projected rows hold three departments, each shown once.
C24_Witness ==
    /\ fields.kind = "UNION"
    /\ fields.selected_columns = {"department"}
    /\ employees_a = EmployeesALiteral
    /\ employees_b = EmployeesBLiteral
    /\ Len(employees_a) + Len(employees_b) = 6
    /\ BagCardinality(displayed) = 3

\* C25: for every non-empty selection of columns, every INTERSECT row is a
\* projected row of A and of B, every EXCEPT row is a projected row of A and
\* of no row of B, and every projected row of A is in exactly one of the two
\* results.
C25_IntersectAndExceptSplitA ==
    fields.selected_columns # {} =>
        LET intersect_result ==
                Intersect(employees_a, employees_b, fields.selected_columns)
            except_result ==
                Except(employees_a, employees_b, fields.selected_columns)
        IN  /\ fields.kind = "INTERSECT" =>
                  /\ displayed = intersect_result
                  /\ \A r \in BagToSet(displayed) :
                        r \in Projected(employees_a) /\ r \in Projected(employees_b)
            /\ fields.kind = "EXCEPT" =>
                  /\ displayed = except_result
                  /\ \A r \in BagToSet(displayed) :
                        r \in Projected(employees_a) /\ r \notin Projected(employees_b)
            /\ fields.kind \in {"INTERSECT", "EXCEPT"} =>
                  \A r \in Projected(employees_a) :
                     (r \in BagToSet(intersect_result)) # (r \in BagToSet(except_result))

\* EXCEPT of the tables of the page on the name column alone: Alice and Bob,
\* while Charlie, the name that is also in B, is the INTERSECT.
C25_Witness ==
    /\ fields.kind = "EXCEPT"
    /\ fields.selected_columns = {"name"}
    /\ employees_a = EmployeesALiteral
    /\ employees_b = EmployeesBLiteral
    /\ BagToSet(displayed) = {[name |-> <<"Alice">>], [name |-> <<"Bob">>]}
    /\ BagToSet(Intersect(employees_a, employees_b, {"name"})) = {[name |-> <<"Charlie">>]}

-----------------------------------------------------------------------------
(* Further claims about the Transactions page, checked under               *)
(* SpecTransactions.                                                       *)

\* The run has tested the amount entered against the Laptop stock `old` of
\* the table and left `new`: too large an amount is reported and changes
\* nothing, any other amount is deducted exactly.
DeductionChecked(old, new) ==
    IF inputs.amount > old
    THEN message = "Transaction Failed: Insufficient stock!" /\ new = old
    ELSE message # "Transaction Failed: Insufficient stock!" /\ new = old - inputs.amount

\* C26: the Laptop stock of the COMMIT/ROLLBACK table and of the SAVEPOINT
\* table is always between 0 and 10; Start Transaction and Start Transaction
\* with SAVEPOINT report an amount larger than the stock as insufficient stock
\* and leave the stock unchanged, and lower the stock by exactly the amount
\* otherwise; every amount is at least 1.
C26_LaptopStockWithinBounds ==
    /\ transaction_products[1].stock \in 0..10
    /\ savepoint_products[1].stock \in 0..10
    /\ trigger = "Start Transaction" =>
          /\ inputs.amount >= 1
          /\ DeductionChecked(before.transaction_products[1].stock,
                              transaction_products[1].stock)
          /\ savepoint_products = before.savepoint_products
    /\ trigger = "Start Transaction with SAVEPOINT" =>
          /\ inputs.amount >= 1
          /\ DeductionChecked(before.savepoint_products[1].stock,
                              savepoint_products[1].stock)
          /\ transaction_products = before.transaction_products
    /\ trigger = "Perform Transaction" =>
          /\ inputs.amount >= 1
          /\ DeductionChecked(StockByName(ProductsLiteral, inputs.product),
                              StockByName(products, inputs.product))
          /\ SessionTables = before

\* All 10 Laptops have been deducted from the COMMIT/ROLLBACK table, and
\* Start Transaction with amount 1 has been refused.
C26_Witness ==
    /\ trigger = "Start Transaction"
    /\ before.transaction_products[1].stock = 0
    /\ inputs.amount = 1
    /\ message = "Transaction Failed: Insufficient stock!"
    /\ transaction_products[1].stock = 0

-----------------------------------------------------------------------------
(* Further claims about the Constraints and Data Modification pages,       *)
(* checked under SpecEmployees.                                            *)

\* C27: on every tab of the Constraints page, after an accepted Add Row (the
\* table of the run holds a row more than the sample table) the emp_id
\* values of the employees table are pairwise distinct.
C27_AcceptedRowKeepsEmpIdDistinct ==
    (page = "7_Constraints.py" /\ Len(employees) > Len(EmployeesLiteral)) =>
        \A i, j \in DOMAIN employees :
           employees[i].emp_id = employees[j].emp_id => i = j

\* C28: Merge Employee is an upsert on the table of its run.  If the entered
\* id is in the table, the row count and every emp_id are unchanged, the rows
\* with that id take the entered name, department and salary and every other
\* row is unchanged; otherwise one row holding the entered values is appended
\* and the existing rows are unchanged.
C28_MergeIsUpsert ==
    (page = "6_Data_Modification.py" /\ trigger = "merge_employee") =>
        LET old == EmployeesLiteral
        IN  IF \E i \in DOMAIN old : old[i].emp_id = inputs.emp_id
            THEN /\ Len(employees) = Len(old)
                 /\ \A i \in DOMAIN old :
                       /\ employees[i].emp_id = old[i].emp_id
                       /\ old[i].emp_id = inputs.emp_id =>
                             /\ employees[i].name = inputs.name
                             /\ employees[i].department = inputs.department
                             /\ employees[i].salary = inputs.salary
                       /\ old[i].emp_id # inputs.emp_id => employees[i] = old[i]
            ELSE /\ Len(employees) = Len(old) + 1
                 /\ SubSeq(employees, 1, Len(old)) = old
                 /\ employees[Len(employees)] =
                       [emp_id |-> inputs.emp_id, name |-> inputs.name,
                        department |-> inputs.department, salary |-> inputs.salary]

\* Merge Employee has been pressed with the id of Bob and another name: the
\* table still has three rows, and row 2 holds the entered values under id 2.
C28_Witness ==
    /\ page = "6_Data_Modification.py"
    /\ trigger = "merge_employee"
    /\ inputs.emp_id = 2
    /\ inputs.name # <<"Bob">>
    /\ Len(employees) = 3
    /\ employees[2] = [emp_id |-> 2, name |-> inputs.name,
                       department |-> inputs.department, salary |-> inputs.salary]

-----------------------------------------------------------------------------
(* Claims about the Triggers page, checked under SpecTriggers.             *)

\* The products table of the run is the sample table with one row appended
\* that holds the values entered.
OneProductAppended ==
    /\ Len(products) = Len(TriggersProductsLiteral) + 1
    /\ SubSeq(products, 1, Len(TriggersProductsLiteral)) = TriggersProductsLiteral
    /\ products[Len(products)].product_name = inputs.product_name
    /\ products[Len(products)].stock = inputs.stock
    /\ products[Len(products)].price = inputs.price

\* C29: Insert Product with AFTER Trigger appends exactly one product row and
\* exactly one audit_log row, with action INSERT and the product_id of the
\* row just inserted, a product_id that no row already in the table has;
\* Insert Product with BEFORE Trigger appends no audit_log row, and with a
\* negative stock it is rejected and leaves the products table unchanged.
C29_TriggerInsertsAndLogs ==
    /\ trigger = "Insert Product with AFTER Trigger" =>
          /\ OneProductAppended
          /\ Len(audit_log) = 1
          /\ audit_log[1].action = "INSERT"
          /\ audit_log[1].product_id = products[Len(products)].product_id
          /\ \A i \in DOMAIN TriggersProductsLiteral :
                TriggersProductsLiteral[i].product_id # products[Len(products)].product_id
    /\ trigger = "Insert Product with BEFORE Trigger" =>
          /\ audit_log = <<>>
          /\ IF inputs.stock < 0
             THEN /\ products = TriggersProductsLiteral
                  /\ message = "BEFORE Trigger Activated: Stock cannot be negative!"
             ELSE OneProductAppended

\* Insert Product with AFTER Trigger has been pressed for a Mouse: product 4
\* is in the table and the log holds one INSERT row for product 4.
C29_Witness ==
    /\ trigger = "Insert Product with AFTER Trigger"
    /\ inputs.product_name = "Mouse"
    /\ products[4].product_id = 4
    /\ products[4].product_name = "Mouse"
    /\ Len(audit_log) = 1
    /\ audit_log[1].product_id = 4

-----------------------------------------------------------------------------
(* Claims about the LIKE tab of the Basic SQL Queries page, checked under  *)
(* SpecLike.                                                               *)

\* The text occurs in the value at character k, character for character.
OccursAt(text, value, k) ==
    /\ k >= 1
    /\ k + Len(text) - 1 <= Len(value)
    /\ \A i \in DOMAIN text : value[k + i - 1] = text[i]

\* The value contains, starts with, ends with or equals the text taken as a
\* literal string.
LiteralMatch(pattern_type, text, value) ==
    CASE pattern_type = "Contains" -> \E k \in 1..Len(value) : OccursAt(text, value, k)
      [] pattern_type = "Begins with" -> OccursAt(text, value, 1)
      [] pattern_type = "Ends with" -> OccursAt(text, value, Len(value) - Len(text) + 1)
      [] pattern_type = "Exact Match" -> value = text

\* SQL LIKE: % stands for any run of characters, _ for any one character.
RECURSIVE SqlLike(_, _)
SqlLike(pattern, value) ==
    IF pattern = <<>> THEN value = <<>>
    ELSE IF Head(pattern) = "%"
    THEN SqlLike(Tail(pattern), value) \/ (value # <<>> /\ SqlLike(pattern, Tail(value)))
    ELSE /\ value # <<>>
         /\ Head(pattern) = "_" \/ Head(pattern) = Head(value)
         /\ SqlLike(Tail(pattern), Tail(value))

\* The row is one the displayed command selects.
CommandSelects(command, r) ==
    IF command.op = "=" THEN r[command.column] = command.pattern
    ELSE SqlLike(command.pattern, r[command.column])

\* C30: on the LIKE tab, for every non-empty text, the rows shown are exactly
\* the rows whose column value contains, starts with, ends with or equals the
\* text taken as a case-sensitive literal string, no character of the text
\* having a special meaning, and they are the rows that the displayed command
\* selects.
C30_PatternIsLiteralText ==
    fields.user_input # <<>> =>
        LET LiteralRow(r) == LiteralMatch(fields.pattern_type, fields.user_input,
                                          r[fields.like_column])
            CommandRow(r) == CommandSelects(sql_command, r)
        IN  /\ displayed = SelectSeq(data, LiteralRow)
            /\ displayed = SelectSeq(data, CommandRow)

=============================================================================
